---- MODULE Spec2Model ----
(***************************************************************************)
(* Dodo Payments + Supabase boilerplate: the signup / subscribe flows and  *)
(* the webhook reconciliation of src/src/modules, over the tables of       *)
(* src/supabase/migrations/001_initial_schema.sql.                         *)
(*                                                                         *)
(* Every request (an API call or a webhook delivery) runs in a slot of     *)
(* `procs`.  One action is one store call (or provider call) of the        *)
(* handler together with the local computation around it, so that          *)
(* concurrent requests interleave exactly at the awaits of the code.       *)
(***************************************************************************)
EXTENDS Integers, Sequences, FiniteSets, TLC

\* ------------------------------------------------------------------ bounds
MaxRequests == 3
MaxInFlight == 2
MaxDodoCustomers == 2

\* ------------------------------------------------------------ input domains
Null == "null"

Emails == {"a@x", "b@x"}
Names == {"Ann"}
Products == {"prod_1"}
Intervals == {"year"}
RealSubIds == {<<"sub", 1>>, <<"sub", 2>>}
NoSubId == <<"none", 0>>
NoDodoId == <<"none", 0>>
NoPaymentId == <<"none", 0>>

Slots == 1..MaxInFlight

\* The n-th customer createDodoCustomer creates gets the n-th id; ExternalDodoId
\* is a customer created at the provider outside this system (its console).
DodoIdOf(n) == <<"cus", n>>
ExternalDodoId == <<"ext", 1>>

\* ------------------------------------------------------------------- state
VARIABLES
    customers,      \* table customers
    subscriptions,  \* table subscriptions
    webhook_events, \* table webhook_events
    payments,       \* table payments
    checkoutUrl,    \* appConfig.checkoutUrl, read from the environment at load
    dodoCustomers,  \* ids of the customers createDodoCustomer created at the provider
    started,        \* number of requests started so far
    procs,          \* the requests: slot -> request record
    pre             \* history: subscriptions as a sequential request found them

vars == <<customers, subscriptions, webhook_events, payments, checkoutUrl,
          dodoCustomers, started, procs, pre>>

store == <<customers, subscriptions, webhook_events, payments>>

Idle == [kind |-> "idle", pc |-> "idle"]

\* The store a run starts from: empty, or as an earlier signup, or an
\* earlier signup and subscribe, of Ann left it.
AnnRow == [id |-> 1, email |-> "a@x", name |-> "Ann",
           dodo_customer_id |-> DodoIdOf(1)]
AnnPlaceholder ==
    [id |-> 1, customer_id |-> 1, dodo_subscription_id |-> <<"temp", 1>>,
     product_id |-> "prod_1", status |-> "pending", billing_interval |-> "year",
     amount |-> 0, currency |-> "USD", next_billing_date |-> Null,
     created_at |-> 1, updated_at |-> 0]

InitialStores ==
    {[customers |-> {}, subscriptions |-> {}, dodoCustomers |-> {}],
     [customers |-> {AnnRow}, subscriptions |-> {}, dodoCustomers |-> {DodoIdOf(1)}],
     [customers |-> {AnnRow}, subscriptions |-> {AnnPlaceholder},
      dodoCustomers |-> {DodoIdOf(1)}]}

\* A URL is the sequence of its parts.  DODO_CHECKOUT_URL is unset, or set.
DefaultCheckoutUrl == <<"https://test.checkout.dodopayments.com">>
CheckoutUrls == {DefaultCheckoutUrl, <<"https://checkout.example">>}

\* A checkout URL that ignores the configured base.
DefaultUrlOnly(productId) == DefaultCheckoutUrl \o <<"/buy/", productId>>

\* createCheckoutUrl: `${appConfig.checkoutUrl}/buy/${productId}`
createCheckoutUrl(productId) == checkoutUrl \o <<"/buy/", productId>>

InitWith(urls) ==
    /\ \E s \in InitialStores :
        /\ customers = s.customers
        /\ subscriptions = s.subscriptions
        /\ dodoCustomers = s.dodoCustomers
    /\ webhook_events = {}
    /\ payments = {}
    /\ checkoutUrl \in urls
    /\ started = 0
    /\ procs = [p \in Slots |-> Idle]
    /\ pre = {}

Init == InitWith({DefaultCheckoutUrl})

\* -------------------------------------------------------------- scheduling
Free(p) == procs[p].pc \in {"idle", "done"}

\* A request takes the lowest free slot; a sequential request starts only
\* when no other request is in flight, and records what it found.
CanStart(p, seq) ==
    /\ started < MaxRequests
    /\ Free(p)
    /\ \A q \in 1..(p - 1) : ~Free(q)
    /\ seq => \A q \in Slots : Free(q)

Begin(seq) ==
    /\ started' = started + 1
    /\ pre' = IF seq THEN subscriptions ELSE pre

\* ---------------------------------------------------------- error messages
\* A message is the sequence of its words; String.includes is a search for
\* a contiguous run of words.
Includes(msg, phrase) ==
    \E i \in 1..(Len(msg) - Len(phrase) + 1) :
        SubSeq(msg, i, i + Len(phrase) - 1) = phrase

UniqueViolation(constraint) ==
    <<"duplicate", "key", "value", "violates", "unique", "constraint", constraint>>

\* ------------------------------------------------------------------ signup
\* A lookup by email that finds no row.
NoCustomerByEmail(email) == {}

\* getCustomerByEmail: the row with that email, as a set of at most one row.
getCustomerByEmail(email) == {c \in customers : c.email = email}

\* The customers table's constraints, as an insert meets them: the name of
\* the violated constraint, or "ok".
CustomerInsertCheck(row) ==
    IF row.email = Null \/ row.name = Null \/ row.dodo_customer_id = NoDodoId
    THEN "not_null"
    ELSE IF \E c \in customers : c.email = row.email
    THEN "customers_email_key"
    ELSE IF \E c \in customers : c.dodo_customer_id = row.dodo_customer_id
    THEN "customers_dodo_customer_id_key"
    ELSE "ok"

\* A customers row that takes the email for the name.
RowNamedByEmail(email, name, dodoId) ==
    [id |-> Cardinality(customers) + 1, email |-> email, name |-> email,
     dodo_customer_id |-> dodoId]

\* The row an insert into customers writes.
NewCustomerRow(email, name, dodoId) ==
    [id |-> Cardinality(customers) + 1, email |-> email, name |-> name,
     dodo_customer_id |-> dodoId]

\* createCustomerFlow's catch: every error leaves as "Failed to create customer: ...".
CustomerFlowError(msg) == <<"Failed", "to", "create", "customer", ":">> \o msg

\* A signup endpoint that answers every error with 500.
SignupAlwaysServerError(msg) == 500

\* POST /api/signup: the status the endpoint answers an error with.
SignupErrorStatus(msg) ==
    IF Includes(msg, <<"already", "exists">>) THEN 409 ELSE 500

SignupFailed(p, r, msg) ==
    procs' = [procs EXCEPT ![p] =
        [r EXCEPT !.pc = "done", !.status = SignupErrorStatus(CustomerFlowError(msg)),
                  !.error = CustomerFlowError(msg)]]

\* The request arrives and createCustomerFlow looks the email up.
StartSignup(p, seq, emails) ==
    /\ CanStart(p, seq)
    /\ Begin(seq)
    /\ \E email \in emails, name \in Names :
        LET r == [kind |-> "signup", pc |-> "dodo", email |-> email, name |-> name,
                  dodo_customer_id |-> NoDodoId, status |-> 0, error |-> <<>>]
        IN IF getCustomerByEmail(email) # {}
           THEN SignupFailed(p, r,
                    <<"Customer", "with", "email", email, "already", "exists">>)
           ELSE procs' = [procs EXCEPT ![p] = r]
    /\ UNCHANGED <<store, dodoCustomers, checkoutUrl>>

\* A createCustomerFlow that inserts the local row before it asks the
\* provider, and fails.
InsertBeforeDodo(p) ==
    /\ procs[p].kind = "signup" /\ procs[p].pc = "dodo"
    /\ customers' = customers \cup
            {NewCustomerRow(procs[p].email, procs[p].name, <<"cus", 0>>)}
    /\ SignupFailed(p, procs[p],
            <<"Failed", "to", "create", "Dodo", "customer", ":", "upstream">>)
    /\ UNCHANGED <<payments, subscriptions, webhook_events, dodoCustomers, started,
                   pre, checkoutUrl>>

\* createDodoCustomer: the provider creates the customer, fails, or answers
\* without a customer_id.
SignupDodo(p) ==
    /\ procs[p].kind = "signup" /\ procs[p].pc = "dodo"
    /\ \/ /\ Cardinality(dodoCustomers) < MaxDodoCustomers
          /\ LET id == DodoIdOf(Cardinality(dodoCustomers) + 1)
             IN /\ dodoCustomers' = dodoCustomers \cup {id}
                /\ procs' = [procs EXCEPT ![p].pc = "insert",
                                          ![p].dodo_customer_id = id]
       \/ /\ SignupFailed(p, procs[p],
                <<"Failed", "to", "create", "Dodo", "customer", ":", "upstream">>)
          /\ UNCHANGED dodoCustomers
       \/ /\ SignupFailed(p, procs[p],
                <<"Failed", "to", "create", "customer", "in", "Dodo", "Payments",
                  "-", "no", "customer", "ID", "returned">>)
          /\ UNCHANGED dodoCustomers
    /\ UNCHANGED <<store, started, pre, checkoutUrl>>

\* createCustomer: the insert of the local row.
SignupInsert(p) ==
    /\ procs[p].kind = "signup" /\ procs[p].pc = "insert"
    /\ LET row == NewCustomerRow(procs[p].email, procs[p].name,
                                 procs[p].dodo_customer_id)
           chk == CustomerInsertCheck(row)
       IN IF chk = "ok"
          THEN /\ customers' = customers \cup {row}
               /\ procs' = [procs EXCEPT ![p].pc = "done", ![p].status = 201]
          ELSE /\ SignupFailed(p, procs[p],
                      <<"Failed", "to", "create", "customer", ":">>
                          \o UniqueViolation(chk))
               /\ UNCHANGED customers
    /\ UNCHANGED <<payments, subscriptions, webhook_events, dodoCustomers, started, pre, checkoutUrl>>

\* --------------------------------------------------------------- subscribe
\* A subscriptions table without the unique constraint.
NoUniqueConstraint(sid, self) == FALSE

\* Rows are never deleted, so a row's created_at is its rank among the
\* inserts; updated_at counts the updates of the row (the trigger's NOW()).
\* The subscriptions table's unique constraint, as a write of `sid` to the
\* row `self` meets it (self = 0 for an insert).
SubscriptionIdTaken(sid, self) ==
    \E s \in subscriptions : s.dodo_subscription_id = sid /\ s.id # self

\* createSubscription's insert, once the constraints let it through.
createSubscription(row) ==
    subscriptions' = subscriptions \cup {row}

NewSubscriptionRow(fields) ==
    [id |-> Cardinality(subscriptions) + 1,
     customer_id |-> fields.customer_id,
     dodo_subscription_id |-> fields.dodo_subscription_id,
     product_id |-> fields.product_id,
     status |-> fields.status,
     billing_interval |-> fields.billing_interval,
     amount |-> fields.amount,
     currency |-> fields.currency,
     next_billing_date |-> fields.next_billing_date,
     created_at |-> Cardinality(subscriptions) + 1,
     updated_at |-> 0]

\* A fresh id without the temp_ prefix.
FreshUnprefixedId == <<"tmp", Cardinality(subscriptions) + 1>>

\* `temp_${Date.now()}_${random}`: a fresh id with the temp_ prefix.
TempSubscriptionId == <<"temp", Cardinality(subscriptions) + 1>>

IsTemp(sid) == sid[1] = "temp"

SubscriptionFlowError(msg) == <<"Failed", "to", "create", "subscription", ":">> \o msg

\* A subscribe endpoint that answers every error with 500.
SubscribeAlwaysServerError(msg) == 500

\* POST /api/subscribe: the status the endpoint answers an error with.
SubscribeErrorStatus(msg) ==
    IF Includes(msg, <<"not", "found">>) THEN 404 ELSE 500

SubscribeFailed(p, r, msg) ==
    procs' = [procs EXCEPT ![p] =
        [r EXCEPT !.pc = "done", !.status = SubscribeErrorStatus(SubscriptionFlowError(msg)),
                  !.error = SubscriptionFlowError(msg)]]

\* The request arrives and createSubscriptionFlow looks the customer up.
StartSubscribe(p, seq, emails) ==
    /\ CanStart(p, seq)
    /\ Begin(seq)
    /\ \E email \in emails, product \in Products, interval \in Intervals :
        LET found == getCustomerByEmail(email)
            r == [kind |-> "subscribe", pc |-> "insert", email |-> email,
                  product_id |-> product, billing_interval |-> interval,
                  customer_id |-> 0, dodo_subscription_id |-> NoSubId,
                  payment_link |-> <<>>, status |-> 0, error |-> <<>>]
        IN IF found = {}
           THEN SubscribeFailed(p, r,
                    <<"Customer", "not", "found", ".", "Please", "sign", "up",
                      "first", ".">>)
           ELSE procs' = [procs EXCEPT ![p] =
                    [r EXCEPT !.customer_id = (CHOOSE c \in found : TRUE).id]]
    /\ UNCHANGED <<store, dodoCustomers, checkoutUrl>>

\* createSubscription: the insert of the pending placeholder row; the
\* endpoint answers with the row and createCheckoutUrl(product_id).
SubscribeInsert(p) ==
    /\ procs[p].kind = "subscribe" /\ procs[p].pc = "insert"
    /\ LET row == NewSubscriptionRow(
                      [customer_id |-> procs[p].customer_id,
                       dodo_subscription_id |-> TempSubscriptionId,
                       product_id |-> procs[p].product_id,
                       status |-> "pending",
                       billing_interval |-> procs[p].billing_interval,
                       amount |-> 0,
                       currency |-> "USD",
                       next_billing_date |-> Null])
       IN IF SubscriptionIdTaken(row.dodo_subscription_id, 0)
          THEN /\ SubscribeFailed(p, procs[p],
                      <<"Failed", "to", "create", "subscription", ":">>
                          \o UniqueViolation("subscriptions_dodo_subscription_id_key"))
               /\ UNCHANGED subscriptions
          ELSE /\ createSubscription(row)
               /\ procs' = [procs EXCEPT ![p].pc = "done", ![p].status = 201,
                                ![p].dodo_subscription_id = row.dodo_subscription_id,
                                ![p].payment_link =
                                    createCheckoutUrl(procs[p].product_id)]
    /\ UNCHANGED <<payments, customers, webhook_events, dodoCustomers, started, pre, checkoutUrl>>

\* ----------------------------------------------------------------- webhook
SubscriptionEvents == {"subscription.active", "subscription.cancelled",
                       "subscription.renewed"}
EventTypes == SubscriptionEvents \cup {"payment.succeeded", "customer.updated"}

NoCustomer == [present |-> FALSE, customer_id |-> NoDodoId, email |-> Null,
               name |-> Null]

\* The customer objects an event can carry: one naming a customer of the
\* provider, one without customer_id, or none.
EventCustomer(dodoId, email) ==
    [present |-> TRUE, customer_id |-> dodoId, email |-> email, name |-> "Ann"]
AnonymousCustomer == EventCustomer(NoDodoId, "a@x")

\* The customers of the concurrent specification's events: the first
\* createDodoCustomer created.
RaceCustomers == {EventCustomer(c, "a@x") : c \in dodoCustomers \cap {DodoIdOf(1)}}

\* The customers of the sequential specification's events: the first
\* createDodoCustomer created, and the external one under either email.
SeqCustomers ==
    {EventCustomer(c, "a@x") : c \in dodoCustomers \cap {DodoIdOf(1)}}
    \cup {EventCustomer(ExternalDodoId, e) : e \in Emails}

\* The billing fields of an event: all present, or all absent.
FullBilling == [payment_frequency_interval |-> "Year",
                recurring_pre_tax_amount |-> 500,
                currency |-> "EUR",
                next_billing_date |-> "2026-01-01"]
BareBilling == [payment_frequency_interval |-> Null,
                recurring_pre_tax_amount |-> 0,
                currency |-> Null,
                next_billing_date |-> Null]

EventData(sid, customer, product, billing) ==
    [subscription_id |-> sid, customer |-> customer, product_id |-> product,
     payment_id |-> NoPaymentId, total_amount |-> 0,
     payment_frequency_interval |-> billing.payment_frequency_interval,
     recurring_pre_tax_amount |-> billing.recurring_pre_tax_amount,
     currency |-> billing.currency,
     next_billing_date |-> billing.next_billing_date]

\* Subscription events with a subscription id, a customer id, the product
\* and the billing fields.
FullEvents(eventCustomers) ==
    {[type |-> t, data |-> EventData(sid, c, pr, FullBilling)] :
        t \in SubscriptionEvents, sid \in RealSubIds, c \in eventCustomers,
        pr \in Products}

\* Subscription events without product and billing fields.
BareEvents(eventCustomers) ==
    {[type |-> "subscription.active", data |-> EventData(sid, c, Null, BareBilling)] :
        sid \in RealSubIds, c \in eventCustomers}

\* Activations that lack the subscription id, or the customer or its id.
PartialEvents(eventCustomers) ==
    {[type |-> "subscription.active", data |-> EventData(NoSubId, c, pr, FullBilling)] :
        c \in eventCustomers \cup {NoCustomer, AnonymousCustomer}, pr \in Products}
    \cup
    {[type |-> "subscription.active",
      data |-> EventData(<<"sub", 1>>, c, pr, FullBilling)] :
        c \in {NoCustomer, AnonymousCustomer}, pr \in Products}

\* Events of a type processWebhook has no case for.
OtherEvents ==
    {[type |-> t, data |-> EventData(NoSubId, NoCustomer, Null, BareBilling)] :
        t \in EventTypes \ SubscriptionEvents}

\* The events of the sequential specification.
SeqEvents ==
    FullEvents(SeqCustomers)
    \cup BareEvents(SeqCustomers \ {EventCustomer(ExternalDodoId, "a@x")})
    \cup PartialEvents(SeqCustomers \ {EventCustomer(ExternalDodoId, "a@x")})
    \cup OtherEvents

\* The events of the concurrent specification: activations and
\* cancellations of the first customer, and one unhandled type.
RaceEvents ==
    {e \in FullEvents(RaceCustomers) : e.type # "subscription.renewed"}
    \cup {e \in OtherEvents : e.type = "payment.succeeded"}

\* String.toLowerCase on the intervals the provider sends.
ToLowerCase(str) ==
    CASE str = "Year" -> "year"
      [] str = "Month" -> "month"
      [] OTHER -> str

\* The status a subscription event sets (processWebhook's switch).
TargetStatus(type) ==
    CASE type = "subscription.active" -> "active"
      [] type = "subscription.cancelled" -> "cancelled"
      [] type = "subscription.renewed" -> "active"
      [] OTHER -> "none"

\* Subscription data that takes no amount from the event.
SubscriptionDataWithoutAmount(customerId, data, status) ==
    [customer_id |-> customerId,
     dodo_subscription_id |-> data.subscription_id,
     product_id |-> IF data.product_id = Null THEN "unknown" ELSE data.product_id,
     status |-> status,
     billing_interval |->
        IF data.payment_frequency_interval = Null THEN "month"
        ELSE ToLowerCase(data.payment_frequency_interval),
     amount |-> 0,
     currency |-> IF data.currency = Null THEN "USD" ELSE data.currency,
     next_billing_date |-> data.next_billing_date]

\* newSubscriptionData of handleSubscriptionWebhook.
newSubscriptionData(customerId, data, status) ==
    [customer_id |-> customerId,
     dodo_subscription_id |-> data.subscription_id,
     product_id |-> IF data.product_id = Null THEN "unknown" ELSE data.product_id,
     status |-> status,
     billing_interval |->
        IF data.payment_frequency_interval = Null THEN "month"
        ELSE ToLowerCase(data.payment_frequency_interval),
     amount |-> data.recurring_pre_tax_amount,
     currency |-> IF data.currency = Null THEN "USD" ELSE data.currency,
     next_billing_date |-> data.next_billing_date]

WebhookError(msg) == <<"Webhook", "processing", "failed", ":">> \o msg

\* A processWebhook that swallows the error and returns success.
ErrorSwallowed(p, r, msg) ==
    procs' = [procs EXCEPT ![p] =
        [r EXCEPT !.pc = "done", !.result = "success", !.error = WebhookError(msg)]]

\* processWebhook's catch: the error is logged and thrown on to the caller.
WebhookFailed(p, r, msg) ==
    procs' = [procs EXCEPT ![p] =
        [r EXCEPT !.pc = "done", !.result = "failed", !.error = WebhookError(msg)]]

NoEvent == [type |-> "none", data |-> EventData(NoSubId, NoCustomer, Null, BareBilling)]

NewWebhook(ev) ==
    [kind |-> "webhook", pc |-> "start", type |-> ev.type, data |-> ev.data,
     event_id |-> 0, customer_id |-> 0, pending_id |-> 0, result |-> "none",
     error |-> <<>>, replay |-> FALSE]

\* Where processWebhook goes once the audit row is written: the switch, and
\* handleSubscriptionEvent up to its first store call.
AfterLog(ev) ==
    IF ev.type \in SubscriptionEvents /\ ev.data.customer.present
    THEN "custLookup" ELSE "mark"

\* Where handleSubscriptionEvent goes once the customer is ensured:
\* handleSubscriptionWebhook up to its first store call.
AfterCustomer(data) ==
    IF data.subscription_id = NoSubId THEN "mark" ELSE "subLookup"

\* A processWebhook that logs the delivery before it verifies it.
LogBeforeVerifying(p) ==
    /\ WebhookFailed(p, NewWebhook(NoEvent),
            <<"Webhook", "verification", "failed", ":", "signature">>)
    /\ webhook_events' = webhook_events \cup
            {[id |-> Cardinality(webhook_events) + 1, event_type |-> "none",
              data |-> NoSubId, processed |-> FALSE]}

\* verifyWebhook throws: processWebhook rethrows before it parses or logs.
VerificationFailure(p) ==
    /\ WebhookFailed(p, NewWebhook(NoEvent),
            <<"Webhook", "verification", "failed", ":", "signature">>)
    /\ UNCHANGED webhook_events

\* A processWebhook that logs the raw body before it parses it.
LogBeforeParsing(p) ==
    /\ WebhookFailed(p, NewWebhook(NoEvent), <<"Unexpected", "token", "in", "JSON">>)
    /\ webhook_events' = webhook_events \cup
            {[id |-> Cardinality(webhook_events) + 1, event_type |-> "none",
              data |-> NoSubId, processed |-> FALSE]}

\* JSON.parse throws on the raw body: processWebhook's catch rethrows, and
\* logWebhookEvent is never reached.
ParseFailure(p) ==
    /\ WebhookFailed(p, NewWebhook(NoEvent), <<"Unexpected", "token", "in", "JSON">>)
    /\ UNCHANGED webhook_events

\* The delivery arrives: verification, JSON.parse, logWebhookEvent.
\* key: whether a signing key is passed; sigOk: whether the signature
\* verifies; the body is malformed, or holds an event of evs.  replay: the
\* event is the one the previous delivery carried.
StartWebhook(p, seq, evs) ==
    /\ CanStart(p, seq)
    /\ Begin(seq)
    /\ \E key \in BOOLEAN, sigOk \in BOOLEAN :
        IF key /\ ~sigOk
        THEN VerificationFailure(p)
        ELSE \/ ParseFailure(p)
             \/ \E ev \in evs :
                LET id == Cardinality(webhook_events) + 1
                    prev == procs[p]
                IN /\ webhook_events' = webhook_events \cup
                           {[id |-> id, event_type |-> ev.type,
                             data |-> ev.data.subscription_id,
                             processed |-> FALSE]}
                   /\ procs' = [procs EXCEPT ![p] =
                           [NewWebhook(ev) EXCEPT
                               !.pc = AfterLog(ev),
                               !.event_id = id,
                               !.replay = /\ seq
                                          /\ prev.kind = "webhook"
                                          /\ prev.type = ev.type
                                          /\ prev.data = ev.data]]
    /\ UNCHANGED <<payments, customers, subscriptions, dodoCustomers, checkoutUrl>>

\* A processWebhook that goes on without audit row when logWebhookEvent fails.
LogFailureIgnored(p, seq, evs) ==
    /\ CanStart(p, seq)
    /\ Begin(seq)
    /\ \E ev \in evs :
        procs' = [procs EXCEPT ![p] = [NewWebhook(ev) EXCEPT !.pc = AfterLog(ev)]]
    /\ UNCHANGED <<store, dodoCustomers, checkoutUrl>>

\* The delivery arrives, is verified and parsed, and the insert of the audit
\* row fails (the store is away, or refuses the row): logWebhookEvent throws,
\* and processWebhook's catch throws on.
WebhookLogFailure(p, seq, evs) ==
    /\ CanStart(p, seq)
    /\ Begin(seq)
    /\ \E ev \in evs :
        WebhookFailed(p, NewWebhook(ev),
            <<"Failed", "to", "log", "webhook", "event", ":", "store">>)
    /\ UNCHANGED <<store, dodoCustomers, checkoutUrl>>

\* handleSubscriptionEvent: select the customer by dodo_customer_id.
WebhookCustomerLookup(p) ==
    /\ procs[p].kind = "webhook" /\ procs[p].pc = "custLookup"
    /\ LET cid == procs[p].data.customer.customer_id
           found == {c \in customers : c.dodo_customer_id = cid}
       IN procs' = [procs EXCEPT ![p].pc =
                        IF found = {} THEN "custInsert"
                        ELSE AfterCustomer(procs[p].data)]
    /\ UNCHANGED <<store, dodoCustomers, started, pre, checkoutUrl>>

\* An insert of the webhook's customer that overwrites the row holding the
\* email.
CustomerUpsertByEmail(p) ==
    /\ procs[p].kind = "webhook" /\ procs[p].pc = "custInsert"
    /\ LET c == procs[p].data.customer
           row == NewCustomerRow(c.email, c.name, c.customer_id)
       IN customers' = {x \in customers : x.email # c.email} \cup {row}
    /\ procs' = [procs EXCEPT ![p].pc = AfterCustomer(procs[p].data)]
    /\ UNCHANGED <<payments, subscriptions, webhook_events, dodoCustomers, started, pre, checkoutUrl>>

\* An insert of the webhook's customer whose error is thrown on.
CustomerInsertThrowing(p) ==
    /\ procs[p].kind = "webhook" /\ procs[p].pc = "custInsert"
    /\ LET c == procs[p].data.customer
           row == NewCustomerRow(c.email, c.name, c.customer_id)
           chk == CustomerInsertCheck(row)
       IN IF chk = "ok"
          THEN /\ customers' = customers \cup {row}
               /\ procs' = [procs EXCEPT ![p].pc = AfterCustomer(procs[p].data)]
          ELSE /\ WebhookFailed(p, procs[p],
                      <<"Failed", "to", "create", "customer", ":">>
                          \o UniqueViolation(chk))
               /\ UNCHANGED customers
    /\ UNCHANGED <<payments, subscriptions, webhook_events, dodoCustomers, started, pre, checkoutUrl>>

\* handleSubscriptionEvent: insert the customer; the result's error is not
\* looked at.
WebhookCustomerInsert(p) ==
    /\ procs[p].kind = "webhook" /\ procs[p].pc = "custInsert"
    /\ LET c == procs[p].data.customer
           row == NewCustomerRow(c.email, c.name, c.customer_id)
       IN customers' = IF CustomerInsertCheck(row) = "ok"
                       THEN customers \cup {row} ELSE customers
    /\ procs' = [procs EXCEPT ![p].pc = AfterCustomer(procs[p].data)]
    /\ UNCHANGED <<payments, subscriptions, webhook_events, dodoCustomers, started, pre, checkoutUrl>>

\* A lookup by subscription id that finds no row.
NoSubscriptionByDodoId(sid) == {}

\* getSubscriptionByDodoId: the row with that id, as a set of at most one row.
getSubscriptionByDodoId(sid) ==
    {s \in subscriptions : s.dodo_subscription_id = sid}

\* handleSubscriptionWebhook: look the subscription up by the event's id.
WebhookSubLookup(p) ==
    /\ procs[p].kind = "webhook" /\ procs[p].pc = "subLookup"
    /\ LET data == procs[p].data
       IN procs' = [procs EXCEPT ![p].pc =
            IF getSubscriptionByDodoId(data.subscription_id) # {} THEN "subUpdate"
            ELSE IF data.customer.customer_id = NoDodoId THEN "mark"
            ELSE "custRecord"]
    /\ UNCHANGED <<store, dodoCustomers, started, pre, checkoutUrl>>

\* An update of the found subscription that also resets the amount.
StatusUpdateResettingAmount(row, status) ==
    [row EXCEPT !.status = status, !.amount = 0,
                !.updated_at = row.updated_at + 1]

\* The row an update of the found subscription writes: status and updated_at.
StatusUpdate(row, status) ==
    [row EXCEPT !.status = status, !.updated_at = row.updated_at + 1]

\* An update of the found subscription that reaches every row of its customer.
UpdateEveryRowOfCustomer(p) ==
    /\ procs[p].kind = "webhook" /\ procs[p].pc = "subUpdate"
    /\ LET found == getSubscriptionByDodoId(procs[p].data.subscription_id)
           rows == {s \in subscriptions :
                        \E f \in found : s.customer_id = f.customer_id}
       IN /\ subscriptions' =
                (subscriptions \ rows) \cup
                {StatusUpdate(s, TargetStatus(procs[p].type)) : s \in rows}
          /\ procs' = [procs EXCEPT ![p].pc = "mark"]
    /\ UNCHANGED <<payments, customers, webhook_events, dodoCustomers, started, pre, checkoutUrl>>

\* updateSubscription(... { status, updated_at }) on the row found by id.
WebhookSubUpdate(p) ==
    /\ procs[p].kind = "webhook" /\ procs[p].pc = "subUpdate"
    /\ LET rows == getSubscriptionByDodoId(procs[p].data.subscription_id)
       IN IF rows = {}
          THEN /\ WebhookFailed(p, procs[p],
                      <<"Failed", "to", "update", "subscription", ":", "no", "rows">>)
               /\ UNCHANGED subscriptions
          ELSE /\ subscriptions' =
                      (subscriptions \ rows) \cup
                      {StatusUpdate(s, TargetStatus(procs[p].type)) : s \in rows}
               /\ procs' = [procs EXCEPT ![p].pc = "mark"]
    /\ UNCHANGED <<payments, customers, webhook_events, dodoCustomers, started, pre, checkoutUrl>>

\* handleSubscriptionWebhook: the customer's id, by dodo_customer_id.
WebhookCustomerRecord(p) ==
    /\ procs[p].kind = "webhook" /\ procs[p].pc = "custRecord"
    /\ LET found == {c \in customers :
                        c.dodo_customer_id = procs[p].data.customer.customer_id}
       IN IF found = {}
          THEN WebhookFailed(p, procs[p],
                   <<"Customer", "not", "found", ":", "no", "rows">>)
          ELSE procs' = [procs EXCEPT ![p].pc = "pendingLookup",
                            ![p].customer_id = (CHOOSE c \in found : TRUE).id]
    /\ UNCHANGED <<store, dodoCustomers, started, pre, checkoutUrl>>

\* The pending placeholder rows of a customer and product.
PendingPlaceholders(customerId, productId) ==
    {s \in subscriptions :
        /\ s.customer_id = customerId
        /\ s.product_id = productId
        /\ s.status = "pending"
        /\ IsTemp(s.dodo_subscription_id)}

\* The row created first.
Oldest(rows) == CHOOSE s \in rows : \A t \in rows : s.created_at <= t.created_at

\* order('created_at', descending).limit(1)
MostRecent(rows) == CHOOSE s \in rows : \A t \in rows : t.created_at <= s.created_at

\* handleSubscriptionWebhook: look for the pending placeholder.
WebhookPendingLookup(p) ==
    /\ procs[p].kind = "webhook" /\ procs[p].pc = "pendingLookup"
    /\ LET wanted == newSubscriptionData(procs[p].customer_id, procs[p].data,
                                         TargetStatus(procs[p].type))
           pending == PendingPlaceholders(wanted.customer_id, wanted.product_id)
       IN procs' = IF pending = {}
                   THEN [procs EXCEPT ![p].pc = "subInsert"]
                   ELSE [procs EXCEPT ![p].pc = "merge",
                                      ![p].pending_id = MostRecent(pending).id]
    /\ UNCHANGED <<store, dodoCustomers, started, pre, checkoutUrl>>

\* A merge that leaves the placeholder's status in the row.
MergeKeepingStatus(row, new) ==
    [row EXCEPT !.customer_id = new.customer_id,
                !.dodo_subscription_id = new.dodo_subscription_id,
                !.product_id = new.product_id,
                !.billing_interval = new.billing_interval,
                !.amount = new.amount,
                !.currency = new.currency,
                !.updated_at = row.updated_at + 1]

\* A merge that leaves the placeholder's id in the row.
MergeKeepingId(row, new) ==
    [row EXCEPT !.customer_id = new.customer_id,
                !.product_id = new.product_id,
                !.status = new.status,
                !.billing_interval = new.billing_interval,
                !.amount = new.amount,
                !.currency = new.currency,
                !.updated_at = row.updated_at + 1]

\* The row the update of a pending placeholder writes: every field of
\* newSubscriptionData (an absent next_billing_date leaves the column).
MergeUpdate(row, new) ==
    [row EXCEPT !.customer_id = new.customer_id,
                !.dodo_subscription_id = new.dodo_subscription_id,
                !.product_id = new.product_id,
                !.status = new.status,
                !.billing_interval = new.billing_interval,
                !.amount = new.amount,
                !.currency = new.currency,
                !.next_billing_date =
                    IF new.next_billing_date = Null THEN row.next_billing_date
                    ELSE new.next_billing_date,
                !.updated_at = row.updated_at + 1]

\* handleSubscriptionWebhook: rewrite the placeholder row, found by its id.
WebhookMerge(p) ==
    /\ procs[p].kind = "webhook" /\ procs[p].pc = "merge"
    /\ LET new == newSubscriptionData(procs[p].customer_id, procs[p].data,
                                      TargetStatus(procs[p].type))
           rows == {s \in subscriptions : s.id = procs[p].pending_id}
       IN IF SubscriptionIdTaken(new.dodo_subscription_id, procs[p].pending_id)
          THEN /\ WebhookFailed(p, procs[p],
                      <<"Failed", "to", "update", "pending", "subscription", ":">>
                          \o UniqueViolation("subscriptions_dodo_subscription_id_key"))
               /\ UNCHANGED subscriptions
          ELSE /\ subscriptions' =
                      (subscriptions \ rows) \cup {MergeUpdate(s, new) : s \in rows}
               /\ procs' = [procs EXCEPT ![p].pc = "mark"]
    /\ UNCHANGED <<payments, customers, webhook_events, dodoCustomers, started, pre, checkoutUrl>>

\* An insert that, refused, takes the row that holds the id out of the table.
InsertRollingBack(p) ==
    /\ procs[p].kind = "webhook" /\ procs[p].pc = "subInsert"
    /\ LET new == newSubscriptionData(procs[p].customer_id, procs[p].data,
                                      TargetStatus(procs[p].type))
       IN IF SubscriptionIdTaken(new.dodo_subscription_id, 0)
          THEN /\ WebhookFailed(p, procs[p],
                      <<"Failed", "to", "create", "subscription", ":">>
                          \o UniqueViolation("subscriptions_dodo_subscription_id_key"))
               /\ subscriptions' =
                      {r \in subscriptions :
                          r.dodo_subscription_id # new.dodo_subscription_id}
          ELSE /\ createSubscription(NewSubscriptionRow(new))
               /\ procs' = [procs EXCEPT ![p].pc = "mark"]
    /\ UNCHANGED <<payments, customers, webhook_events, dodoCustomers, started, pre,
                   checkoutUrl>>

\* handleSubscriptionWebhook: no placeholder, insert the subscription.
WebhookSubInsert(p) ==
    /\ procs[p].kind = "webhook" /\ procs[p].pc = "subInsert"
    /\ LET new == newSubscriptionData(procs[p].customer_id, procs[p].data,
                                      TargetStatus(procs[p].type))
       IN IF SubscriptionIdTaken(new.dodo_subscription_id, 0)
          THEN /\ WebhookFailed(p, procs[p],
                      <<"Failed", "to", "create", "subscription", ":">>
                          \o UniqueViolation("subscriptions_dodo_subscription_id_key"))
               /\ UNCHANGED subscriptions
          ELSE /\ createSubscription(NewSubscriptionRow(new))
               /\ procs' = [procs EXCEPT ![p].pc = "mark"]
    /\ UNCHANGED <<payments, customers, webhook_events, dodoCustomers, started, pre, checkoutUrl>>

\* A processWebhook that returns success without marking the audit row.
ReturnWithoutMarking(p) ==
    /\ procs[p].kind = "webhook" /\ procs[p].pc = "mark"
    /\ procs' = [procs EXCEPT ![p].pc = "done", ![p].result = "success"]
    /\ UNCHANGED <<store, dodoCustomers, started, pre, checkoutUrl>>

\* A markWebhookProcessed whose update resets the other rows.
MarkResettingOthers(p) ==
    /\ procs[p].kind = "webhook" /\ procs[p].pc = "mark"
    /\ webhook_events' =
            {[e EXCEPT !.processed = (e.id = procs[p].event_id)] : e \in webhook_events}
    /\ procs' = [procs EXCEPT ![p].pc = "done", ![p].result = "success"]
    /\ UNCHANGED <<payments, customers, subscriptions, dodoCustomers, started, pre,
                   checkoutUrl>>

\* A processWebhook that returns success when markWebhookProcessed fails.
MarkFailureIgnored(p) ==
    /\ procs[p].kind = "webhook" /\ procs[p].pc = "mark"
    /\ procs' = [procs EXCEPT ![p].pc = "done", ![p].result = "success"]
    /\ UNCHANGED <<store, dodoCustomers, started, pre, checkoutUrl>>

\* The update of the audit row fails: markWebhookProcessed throws, and
\* processWebhook's catch throws on.
WebhookMarkFailure(p) ==
    /\ procs[p].kind = "webhook" /\ procs[p].pc = "mark"
    /\ WebhookFailed(p, procs[p],
            <<"Failed", "to", "mark", "webhook", "as", "processed", ":", "store">>)
    /\ UNCHANGED <<store, dodoCustomers, started, pre, checkoutUrl>>

\* markWebhookProcessed, and processWebhook returns success.
WebhookMark(p) ==
    /\ procs[p].kind = "webhook" /\ procs[p].pc = "mark"
    /\ webhook_events' =
            {IF e.id = procs[p].event_id THEN [e EXCEPT !.processed = TRUE] ELSE e :
                e \in webhook_events}
    /\ procs' = [procs EXCEPT ![p].pc = "done", ![p].result = "success"]
    /\ UNCHANGED <<payments, customers, subscriptions, dodoCustomers, started, pre, checkoutUrl>>

\* ------------------------------------------- webhook edge function (Deno)
\* The request record of a delivery to the edge function; status is the
\* status of its response.
NewEdge(ev) ==
    [kind |-> "edge", pc |-> "start", type |-> ev.type, data |-> ev.data,
     event_id |-> 0, customer_id |-> 0, pending_id |-> 0, result |-> "none",
     status |-> 0, error |-> <<>>]

\* A response other than 200.  Where the handler throws, serve's inner catch
\* first writes processed=false (with error_message and processed_at, columns
\* the table does not have) to the audit row, which leaves the row as it is.
EdgeFailed(p, r, status, msg) ==
    procs' = [procs EXCEPT ![p] =
        [r EXCEPT !.pc = "done", !.result = "failed", !.status = status,
                  !.error = msg]]

\* handleSubscriptionEvent's first check, once the audit row is written.
EdgeAfterLog(ev) ==
    IF ev.type \notin SubscriptionEvents THEN "mark"
    ELSE IF ev.data.customer.customer_id = NoDodoId
            \/ ev.data.subscription_id = NoSubId
    THEN "missing"
    ELSE "custLookup"

\* serve: verification, JSON.parse, the insert of the audit row, and the
\* switch up to the handler's first store call.
EdgeStart(p, seq, evs) ==
    /\ CanStart(p, seq)
    /\ Begin(seq)
    /\ \E key \in BOOLEAN, sigOk \in BOOLEAN :
        IF key /\ ~sigOk
        THEN /\ EdgeFailed(p, NewEdge(NoEvent), 401,
                    <<"Webhook", "verification", "failed">>)
             /\ UNCHANGED webhook_events
        ELSE \/ /\ EdgeFailed(p, NewEdge(NoEvent), 400,
                       <<"Invalid", "JSON", "payload">>)
                /\ UNCHANGED webhook_events
             \/ \E ev \in evs :
                LET id == Cardinality(webhook_events) + 1
                    r == [NewEdge(ev) EXCEPT !.event_id = id,
                                             !.pc = EdgeAfterLog(ev)]
                IN /\ webhook_events' = webhook_events \cup
                           {[id |-> id, event_type |-> ev.type,
                             data |-> ev.data.subscription_id,
                             processed |-> FALSE]}
                   /\ IF r.pc = "missing"
                      THEN EdgeFailed(p, r, 500,
                               <<"Missing", "required", "fields", ":",
                                 "customer_id", "or", "subscription_id">>)
                      ELSE procs' = [procs EXCEPT ![p] = r]
    /\ UNCHANGED <<payments, customers, subscriptions, dodoCustomers, checkoutUrl>>

\* serve: the insert of the audit row fails, and serve answers 500 before
\* the switch.
EdgeLogFailure(p, seq, evs) ==
    /\ CanStart(p, seq)
    /\ Begin(seq)
    /\ \E ev \in evs :
        EdgeFailed(p, NewEdge(ev), 500,
            <<"Failed", "to", "log", "webhook", "event">>)
    /\ UNCHANGED <<store, dodoCustomers, checkoutUrl>>

\* handleSubscriptionEvent: select the customer by dodo_customer_id.
EdgeCustomerLookup(p) ==
    /\ procs[p].kind = "edge" /\ procs[p].pc = "custLookup"
    /\ LET c == procs[p].data.customer
           found == {x \in customers : x.dodo_customer_id = c.customer_id}
       IN IF found # {}
          THEN procs' = [procs EXCEPT ![p].pc = "pendingLookup",
                            ![p].customer_id = (CHOOSE x \in found : TRUE).id]
          ELSE IF c.email = Null
          THEN EdgeFailed(p, procs[p], 500,
                   <<"Cannot", "create", "customer", "without", "email">>)
          ELSE procs' = [procs EXCEPT ![p].pc = "custInsert"]
    /\ UNCHANGED <<store, dodoCustomers, started, pre, checkoutUrl>>

\* handleSubscriptionEvent: insert the customer; an error is thrown on.
EdgeCustomerInsert(p) ==
    /\ procs[p].kind = "edge" /\ procs[p].pc = "custInsert"
    /\ LET c == procs[p].data.customer
           row == NewCustomerRow(c.email,
                                 IF c.name = Null THEN c.email ELSE c.name,
                                 c.customer_id)
           chk == CustomerInsertCheck(row)
       IN IF chk = "ok"
          THEN /\ customers' = customers \cup {row}
               /\ procs' = [procs EXCEPT ![p].pc = "pendingLookup",
                                         ![p].customer_id = row.id]
          ELSE /\ EdgeFailed(p, procs[p], 500,
                      <<"Failed", "to", "create", "customer", ":">>
                          \o UniqueViolation(chk))
               /\ UNCHANGED customers
    /\ UNCHANGED <<payments, subscriptions, webhook_events, dodoCustomers, started, pre, checkoutUrl>>

\* subscriptionData of the edge function's handleSubscriptionEvent.
subscriptionData(customerId, data, status) ==
    [customer_id |-> customerId,
     dodo_subscription_id |-> data.subscription_id,
     product_id |-> IF data.product_id = Null THEN "unknown" ELSE data.product_id,
     status |-> status,
     billing_interval |->
        IF data.payment_frequency_interval = Null THEN "month"
        ELSE ToLowerCase(data.payment_frequency_interval),
     amount |-> data.recurring_pre_tax_amount,
     currency |-> IF data.currency = Null THEN "USD" ELSE data.currency,
     next_billing_date |-> data.next_billing_date]

\* handleSubscriptionEvent: look for the pending placeholder; the row with
\* the event's id is not looked up first.
EdgePendingLookup(p) ==
    /\ procs[p].kind = "edge" /\ procs[p].pc = "pendingLookup"
    /\ LET wanted == subscriptionData(procs[p].customer_id, procs[p].data,
                                      TargetStatus(procs[p].type))
           pending == PendingPlaceholders(wanted.customer_id, wanted.product_id)
       IN procs' = IF pending = {}
                   THEN [procs EXCEPT ![p].pc = "upsert"]
                   ELSE [procs EXCEPT ![p].pc = "merge",
                                      ![p].pending_id = MostRecent(pending).id]
    /\ UNCHANGED <<store, dodoCustomers, started, pre, checkoutUrl>>

\* The row an update or upsert with subscriptionData writes: every field,
\* next_billing_date (null when absent) and updated_at included.
EdgeUpdate(row, new) ==
    [row EXCEPT !.customer_id = new.customer_id,
                !.dodo_subscription_id = new.dodo_subscription_id,
                !.product_id = new.product_id,
                !.status = new.status,
                !.billing_interval = new.billing_interval,
                !.amount = new.amount,
                !.currency = new.currency,
                !.next_billing_date = new.next_billing_date,
                !.updated_at = row.updated_at + 1]

\* handleSubscriptionEvent: rewrite the placeholder row, found by its id.
EdgeMerge(p) ==
    /\ procs[p].kind = "edge" /\ procs[p].pc = "merge"
    /\ LET new == subscriptionData(procs[p].customer_id, procs[p].data,
                                   TargetStatus(procs[p].type))
           rows == {s \in subscriptions : s.id = procs[p].pending_id}
       IN IF SubscriptionIdTaken(new.dodo_subscription_id, procs[p].pending_id)
          THEN /\ EdgeFailed(p, procs[p], 500,
                      <<"Failed", "to", "update", "pending", "subscription", ":">>
                          \o UniqueViolation("subscriptions_dodo_subscription_id_key"))
               /\ UNCHANGED subscriptions
          ELSE /\ subscriptions' =
                      (subscriptions \ rows) \cup {EdgeUpdate(s, new) : s \in rows}
               /\ procs' = [procs EXCEPT ![p].pc = "mark"]
    /\ UNCHANGED <<payments, customers, webhook_events, dodoCustomers, started, pre, checkoutUrl>>

\* handleSubscriptionEvent: upsert on conflict of dodo_subscription_id.
EdgeUpsert(p) ==
    /\ procs[p].kind = "edge" /\ procs[p].pc = "upsert"
    /\ LET new == subscriptionData(procs[p].customer_id, procs[p].data,
                                   TargetStatus(procs[p].type))
           rows == getSubscriptionByDodoId(new.dodo_subscription_id)
       IN subscriptions' =
            IF rows = {} THEN subscriptions \cup {NewSubscriptionRow(new)}
            ELSE (subscriptions \ rows) \cup {EdgeUpdate(s, new) : s \in rows}
    /\ procs' = [procs EXCEPT ![p].pc = "mark"]
    /\ UNCHANGED <<payments, customers, webhook_events, dodoCustomers, started, pre, checkoutUrl>>

\* serve: update the audit row with processed=true and processed_at.  The
\* table has no processed_at column, the update is refused, the error is
\* logged only, and serve answers 200.
EdgeMark(p) ==
    /\ procs[p].kind = "edge" /\ procs[p].pc = "mark"
    /\ procs' = [procs EXCEPT ![p].pc = "done", ![p].result = "success",
                              ![p].status = 200]
    /\ UNCHANGED <<store, dodoCustomers, started, pre, checkoutUrl>>

\* ------------------------------------- earlier webhook function: payments
\* payment.succeeded events: a payment of a customer.
PaymentData(paymentId, customer) ==
    [EventData(NoSubId, customer, Null, BareBilling) EXCEPT
        !.payment_id = paymentId, !.total_amount = 900]

PaymentEvents(eventCustomers) ==
    {[type |-> "payment.succeeded", data |-> PaymentData(<<"pay", 1>>, c)] :
        c \in eventCustomers}

NewHook(ev) == [NewEdge(ev) EXCEPT !.kind = "hook"]

\* serve's switch and handlePaymentEvent up to its first store call.
HookAfterLog(ev) ==
    IF /\ ev.type = "payment.succeeded"
       /\ ev.data.customer.present
       /\ ev.data.payment_id # NoPaymentId
    THEN "payCustomer" ELSE "mark"

\* serve: verification, JSON.parse, the insert of the audit row.  The events
\* delivered here are payment events and events of no handled type.
HookStart(p, seq, evs) ==
    /\ CanStart(p, seq)
    /\ Begin(seq)
    /\ \E key \in BOOLEAN, sigOk \in BOOLEAN :
        IF key /\ ~sigOk
        THEN /\ EdgeFailed(p, NewHook(NoEvent), 400,
                    <<"Webhook", "verification", "failed">>)
             /\ UNCHANGED webhook_events
        ELSE \/ /\ EdgeFailed(p, NewHook(NoEvent), 400,
                       <<"Webhook", "processing", "failed", ":", "Unexpected",
                         "token", "in", "JSON">>)
                /\ UNCHANGED webhook_events
             \/ \E ev \in {e \in evs : e.type \notin SubscriptionEvents} :
                LET id == Cardinality(webhook_events) + 1
                IN /\ webhook_events' = webhook_events \cup
                           {[id |-> id, event_type |-> ev.type,
                             data |-> ev.data.subscription_id,
                             processed |-> FALSE]}
                   /\ procs' = [procs EXCEPT ![p] =
                           [NewHook(ev) EXCEPT !.event_id = id,
                                               !.pc = HookAfterLog(ev)]]
    /\ UNCHANGED <<payments, customers, subscriptions, dodoCustomers, checkoutUrl>>

\* handlePaymentEvent: find the customer by dodo_customer_id; a payment of an
\* unknown customer is skipped.
HookPaymentCustomer(p) ==
    /\ procs[p].kind = "hook" /\ procs[p].pc = "payCustomer"
    /\ LET found == {c \in customers :
                        c.dodo_customer_id = procs[p].data.customer.customer_id}
       IN procs' = IF found = {}
                   THEN [procs EXCEPT ![p].pc = "mark"]
                   ELSE [procs EXCEPT ![p].pc = "payInsert",
                            ![p].customer_id = (CHOOSE c \in found : TRUE).id]
    /\ UNCHANGED <<store, dodoCustomers, started, pre, checkoutUrl>>

\* The payments row handlePaymentEvent inserts.
NewPaymentRow(customerId, data, status) ==
    [id |-> Cardinality(payments) + 1,
     customer_id |-> customerId,
     dodo_payment_id |-> data.payment_id,
     amount |-> data.total_amount,
     currency |-> IF data.currency = Null THEN "USD" ELSE data.currency,
     status |-> status,
     payment_method |-> Null]

\* handlePaymentEvent: insert the payment; the result's error (a payment id
\* that is taken) is not looked at.
HookPaymentInsert(p) ==
    /\ procs[p].kind = "hook" /\ procs[p].pc = "payInsert"
    /\ LET row == NewPaymentRow(procs[p].customer_id, procs[p].data, "succeeded")
       IN payments' =
            IF \E x \in payments : x.dodo_payment_id = row.dodo_payment_id
            THEN payments ELSE payments \cup {row}
    /\ procs' = [procs EXCEPT ![p].pc = "mark"]
    /\ UNCHANGED <<customers, subscriptions, webhook_events, dodoCustomers, started, pre, checkoutUrl>>

\* serve: mark the audit row processed and answer 200.
HookMark(p) ==
    /\ procs[p].kind = "hook" /\ procs[p].pc = "mark"
    /\ webhook_events' =
            {IF e.id = procs[p].event_id THEN [e EXCEPT !.processed = TRUE] ELSE e :
                e \in webhook_events}
    /\ procs' = [procs EXCEPT ![p].pc = "done", ![p].result = "success",
                              ![p].status = 200]
    /\ UNCHANGED <<payments, customers, subscriptions, dodoCustomers, started, pre, checkoutUrl>>

\* ------------------------------------------------------------ specification
Step(p) ==
    \/ SignupDodo(p)
    \/ SignupInsert(p)
    \/ SubscribeInsert(p)
    \/ WebhookCustomerLookup(p)
    \/ WebhookCustomerInsert(p)
    \/ WebhookSubLookup(p)
    \/ WebhookSubUpdate(p)
    \/ WebhookCustomerRecord(p)
    \/ WebhookPendingLookup(p)
    \/ WebhookMerge(p)
    \/ WebhookSubInsert(p)
    \/ WebhookMark(p)

\* Requests run concurrently, interleaved at their store calls.
Next ==
    \/ \E p \in Slots : StartSignup(p, FALSE, {"a@x"})
    \/ \E p \in Slots : StartSubscribe(p, FALSE, {"a@x"})
    \/ \E p \in Slots : StartWebhook(p, FALSE, RaceEvents)
    \/ \E p \in Slots : Step(p)

Spec == Init /\ [][Next]_vars

\* Requests run one after the other.
SeqNext ==
    \/ \E p \in Slots : StartSignup(p, TRUE, Emails)
    \/ \E p \in Slots : StartSubscribe(p, TRUE, Emails)
    \/ \E p \in Slots : StartWebhook(p, TRUE, SeqEvents)
    \/ \E p \in Slots : Step(p)

SeqSpec == Init /\ [][SeqNext]_vars

\* Signup and subscribe requests, one after the other, under either
\* checkout URL.
UrlNext ==
    \/ \E p \in Slots : StartSignup(p, TRUE, Emails)
    \/ \E p \in Slots : SignupDodo(p)
    \/ \E p \in Slots : SignupInsert(p)
    \/ \E p \in Slots : StartSubscribe(p, TRUE, Emails)
    \/ \E p \in Slots : SubscribeInsert(p)

UrlSpec == InitWith(CheckoutUrls) /\ [][UrlNext]_vars

\* The event whose deliveries race and are redelivered: the activation of
\* sub_1 by the first customer createDodoCustomer created.
RetryEvents ==
    {e \in FullEvents(RaceCustomers) :
        e.type = "subscription.active" /\ e.data.subscription_id = <<"sub", 1>>}

\* A delivery fails at most once, so no more audit rows than this are written.
MaxAuditRows == 2 * MaxRequests

\* processWebhook threw after it logged the event: the caller answers the
\* provider with a failure, and the provider owes the delivery again.
AwaitsRedelivery(r) ==
    /\ r.kind = "webhook" /\ r.pc = "done"
    /\ r.result = "failed" /\ r.event_id # 0

\* A redelivery that is handled under the audit row of the failed delivery.
RedeliverReusingRow(p) ==
    /\ AwaitsRedelivery(procs[p])
    /\ LET ev == [type |-> procs[p].type, data |-> procs[p].data]
       IN procs' = [procs EXCEPT ![p] =
                [NewWebhook(ev) EXCEPT !.pc = AfterLog(ev),
                                       !.event_id = procs[p].event_id,
                                       !.replay = TRUE]]
    /\ UNCHANGED <<store, dodoCustomers, started, pre, checkoutUrl>>

\* The provider delivers the same body again.
Redeliver(p) ==
    /\ AwaitsRedelivery(procs[p])
    /\ Cardinality(webhook_events) < MaxAuditRows
    /\ LET ev == [type |-> procs[p].type, data |-> procs[p].data]
           id == Cardinality(webhook_events) + 1
       IN /\ webhook_events' = webhook_events \cup
                {[id |-> id, event_type |-> ev.type,
                  data |-> ev.data.subscription_id, processed |-> FALSE]}
          /\ procs' = [procs EXCEPT ![p] =
                [NewWebhook(ev) EXCEPT !.pc = AfterLog(ev), !.event_id = id,
                                       !.replay = TRUE]]
    /\ UNCHANGED <<payments, customers, subscriptions, dodoCustomers, started,
                   pre, checkoutUrl>>

RetryStep(p) ==
    \/ WebhookCustomerLookup(p)
    \/ WebhookSubLookup(p)
    \/ WebhookSubUpdate(p)
    \/ WebhookCustomerRecord(p)
    \/ WebhookPendingLookup(p)
    \/ WebhookMerge(p)
    \/ WebhookSubInsert(p)
    \/ WebhookMark(p)

\* A delivery that awaits its redelivery keeps its slot.
RetryNext ==
    \/ \E p \in Slots : ~AwaitsRedelivery(procs[p]) /\ StartWebhook(p, FALSE, RetryEvents)
    \/ \E p \in Slots : Redeliver(p)
    \/ \E p \in Slots : RetryStep(p)

\* Concurrent deliveries of one event.  A delivery that has started runs to
\* its end, and the provider redelivers a delivery that failed.
RetrySpec ==
    /\ Init /\ [][RetryNext]_vars
    /\ \A p \in Slots : WF_vars(RetryStep(p)) /\ WF_vars(Redeliver(p))

\* The customer of the first-contact events: one created at the provider
\* outside this system, whose email no local row holds.
ContactCustomers == {EventCustomer(ExternalDodoId, "b@x")}

\* Activations of that customer's subscriptions, and the cancellation of
\* the first.
ContactEvents ==
    {e \in FullEvents(ContactCustomers) :
        \/ e.type = "subscription.active"
        \/ e.type = "subscription.cancelled" /\ e.data.subscription_id = <<"sub", 1>>}

ContactStep(p) ==
    \/ SubscribeInsert(p)
    \/ WebhookCustomerLookup(p)
    \/ WebhookCustomerInsert(p)
    \/ WebhookSubLookup(p)
    \/ WebhookSubUpdate(p)
    \/ WebhookCustomerRecord(p)
    \/ WebhookPendingLookup(p)
    \/ WebhookMerge(p)
    \/ WebhookSubInsert(p)
    \/ WebhookMark(p)

\* Deliveries to processWebhook for a customer the store has not seen run
\* concurrently, with subscribe calls of that customer.
ContactNext ==
    \/ \E p \in Slots : StartSubscribe(p, FALSE, {"b@x"})
    \/ \E p \in Slots : StartWebhook(p, FALSE, ContactEvents)
    \/ \E p \in Slots : ContactStep(p)

ContactSpec == Init /\ [][ContactNext]_vars

\* handleSubscriptionEvent and handleSubscriptionWebhook of processWebhook,
\* run without interruption on an event that carries a customer id and a
\* subscription id: the outcome, and the subscriptions table it leaves, from
\* the table `subs` it finds and the customers table as the customer insert
\* (whose error is not looked at) leaves it.
NodeReconcile(custs, subs, type, data) ==
    LET status == TargetStatus(type)
        existing == {s \in subs : s.dodo_subscription_id = data.subscription_id}
        customerRecord == {c \in custs : c.dodo_customer_id = data.customer.customer_id}
        customerId == (CHOOSE c \in customerRecord : TRUE).id
        new == newSubscriptionData(customerId, data, status)
        pending == {s \in subs :
                        /\ s.customer_id = customerId
                        /\ s.product_id = new.product_id
                        /\ s.status = "pending"
                        /\ IsTemp(s.dodo_subscription_id)}
    IN IF existing # {}
       THEN [result |-> "success",
             subscriptions |-> (subs \ existing)
                                \cup {StatusUpdate(s, status) : s \in existing}]
       ELSE IF customerRecord = {}
       THEN [result |-> "failed", subscriptions |-> subs]
       ELSE IF pending # {}
       THEN [result |-> "success",
             subscriptions |-> (subs \ {MostRecent(pending)})
                                \cup {MergeUpdate(MostRecent(pending), new)}]
       ELSE [result |-> "success",
             subscriptions |-> subs \cup
                {[NewSubscriptionRow(new) EXCEPT
                    !.id = Cardinality(subs) + 1,
                    !.created_at = Cardinality(subs) + 1]}]

\* The customers of the events delivered to the three webhook handlers: the
\* first createDodoCustomer created, and the external one with Ann's email.
EdgeCustomers ==
    {EventCustomer(c, "a@x") : c \in (dodoCustomers \cap {DodoIdOf(1)})
                                      \cup {ExternalDodoId}}

\* Their events: activations and cancellations of sub_1, an activation of
\* sub_2, activations without customer or customer id, payments, and an
\* event of no handled type.
EdgeEvents ==
    {e \in FullEvents(EdgeCustomers) :
        /\ e.type # "subscription.renewed"
        /\ e.data.subscription_id = <<"sub", 2>> =>
                /\ e.type = "subscription.active"
                /\ e.data.customer.customer_id = DodoIdOf(1)}
    \cup {e \in PartialEvents({}) : e.data.subscription_id # NoSubId}
    \cup PaymentEvents(EdgeCustomers)
    \cup {e \in OtherEvents : e.type = "customer.updated"}

EdgeStep(p) ==
    \/ SubscribeInsert(p)
    \/ WebhookCustomerLookup(p)
    \/ WebhookCustomerInsert(p)
    \/ WebhookSubLookup(p)
    \/ WebhookSubUpdate(p)
    \/ WebhookCustomerRecord(p)
    \/ WebhookPendingLookup(p)
    \/ WebhookMerge(p)
    \/ WebhookSubInsert(p)
    \/ WebhookMark(p)
    \/ WebhookMarkFailure(p)
    \/ EdgeCustomerLookup(p)
    \/ EdgeCustomerInsert(p)
    \/ EdgePendingLookup(p)
    \/ EdgeMerge(p)
    \/ EdgeUpsert(p)
    \/ EdgeMark(p)
    \/ HookPaymentCustomer(p)
    \/ HookPaymentInsert(p)
    \/ HookMark(p)

\* Deliveries to processWebhook, to the edge function and to the earlier
\* function, and subscribe requests, one after the other.
EdgeNext ==
    \/ \E p \in Slots : StartSubscribe(p, TRUE, {"a@x"})
    \/ \E p \in Slots : StartWebhook(p, TRUE, EdgeEvents)
    \/ \E p \in Slots : WebhookLogFailure(p, TRUE, EdgeEvents)
    \/ \E p \in Slots : EdgeLogFailure(p, TRUE, EdgeEvents)
    \/ \E p \in Slots : EdgeStart(p, TRUE, EdgeEvents)
    \/ \E p \in Slots : HookStart(p, TRUE, EdgeEvents)
    \/ \E p \in Slots : EdgeStep(p)

EdgeSpec == Init /\ [][EdgeNext]_vars

\* -------------------------------------------------------------- properties
\* A finished delivery of a subscription.active event that carries a
\* subscription id and a customer id.
ActiveDelivery(p) ==
    /\ procs[p].kind = "webhook" /\ procs[p].pc = "done"
    /\ procs[p].type = "subscription.active"
    /\ procs[p].data.subscription_id # NoSubId
    /\ procs[p].data.customer.customer_id # NoDodoId

\* The local rows of the customer the event of delivery p names.
EventCustomerRows(p) ==
    {c \in customers : c.dodo_customer_id = procs[p].data.customer.customer_id}

\* The product the event of delivery p is looked up under.
EventProduct(p) ==
    IF procs[p].data.product_id = Null THEN "unknown" ELSE procs[p].data.product_id

RowsWithId(rows, sid) == {s \in rows : s.dodo_subscription_id = sid}

RowsOf(rows, customerId, productId) ==
    {s \in rows : s.customer_id = customerId /\ s.product_id = productId}

PlaceholdersIn(rows, customerId, productId) ==
    {s \in RowsOf(rows, customerId, productId) :
        s.status = "pending" /\ IsTemp(s.dodo_subscription_id)}

WithoutUpdatedAt(rows) == {[s EXCEPT !.updated_at = 0] : s \in rows}

\* The delivery p found a placeholder of its customer and product, and no
\* row with its subscription id.
FoundPlaceholder(p) ==
    /\ ActiveDelivery(p)
    /\ RowsWithId(pre, procs[p].data.subscription_id) = {}
    /\ \E c \in EventCustomerRows(p) :
            PlaceholdersIn(pre, c.id, EventProduct(p)) # {}

\* C1: when a pending placeholder row of customer C and product P exists and
\* no row has the id S yet, a subscription.active delivery for C/P with id S
\* succeeds and leaves the number of rows of C/P as it was; one row, the
\* former placeholder, has id S and status active, and no row has the
\* placeholder's id any more.
C1_PlaceholderMerge ==
    \A p \in Slots : FoundPlaceholder(p) =>
        /\ procs[p].result = "success"
        /\ \A c \in EventCustomerRows(p) :
            LET S == procs[p].data.subscription_id
                P == EventProduct(p)
            IN /\ Cardinality(RowsOf(subscriptions, c.id, P))
                    = Cardinality(RowsOf(pre, c.id, P))
               /\ Cardinality(RowsWithId(subscriptions, S)) = 1
               /\ \E b \in PlaceholdersIn(pre, c.id, P) :
                    /\ RowsWithId(subscriptions, b.dodo_subscription_id) = {}
                    /\ \E s \in RowsWithId(subscriptions, S) :
                        /\ s.id = b.id
                        /\ s.status = "active"
                        /\ s.customer_id = c.id
                        /\ s.product_id = P

C1_Witness ==
    \E p \in Slots :
        /\ FoundPlaceholder(p)
        /\ \E s \in subscriptions :
            s.dodo_subscription_id = procs[p].data.subscription_id

\* The same event was delivered twice, one delivery after the other, and p is
\* the second delivery.
Redelivered(p) == ActiveDelivery(p) /\ procs[p].replay

\* What two applications of one subscription.active event leave: one row
\* with the event's id, active, and every row as the first application left
\* it, updated_at apart.
SameAfterBoth(p) ==
    /\ Cardinality(RowsWithId(subscriptions, procs[p].data.subscription_id)) = 1
    /\ \A s \in RowsWithId(subscriptions, procs[p].data.subscription_id) :
            s.status = "active"
    /\ WithoutUpdatedAt(subscriptions) = WithoutUpdatedAt(pre)
    /\ Cardinality(subscriptions) = Cardinality(pre)

FoundNoMatch(p) ==
    /\ ActiveDelivery(p)
    /\ RowsWithId(pre, procs[p].data.subscription_id) = {}
    /\ \A c \in EventCustomerRows(p) :
            PlaceholdersIn(pre, c.id, EventProduct(p)) = {}

\* Exactly one row is new: it has the event's id, status active and the
\* event's billing fields; no other row changed.
InsertedOne(p) ==
    \E c \in EventCustomerRows(p), row \in subscriptions \ pre :
        LET data == procs[p].data
        IN /\ subscriptions = pre \cup {row}
           /\ row.customer_id = c.id
           /\ row.dodo_subscription_id = data.subscription_id
           /\ row.product_id = EventProduct(p)
           /\ row.status = "active"
           /\ row.amount = data.recurring_pre_tax_amount
           /\ row.next_billing_date = data.next_billing_date
           /\ row.currency = (IF data.currency = Null THEN "USD" ELSE data.currency)
           /\ data.payment_frequency_interval = "Year" => row.billing_interval = "year"
           /\ data.payment_frequency_interval = Null => row.billing_interval = "month"

C4_CancelledIsFinal ==
    [][\A s \in subscriptions : s.status = "cancelled" =>
            \A t \in subscriptions' : t.id = s.id => t.status = "cancelled"]_vars

\* C5: in every reachable state, whatever the interleaving of subscribe
\* calls and webhook deliveries, no two rows carry the same real
\* (non-placeholder) provider subscription id.
C5_OneRowPerRealId ==
    \A s, t \in subscriptions :
        /\ ~IsTemp(s.dodo_subscription_id)
        /\ s.dodo_subscription_id = t.dodo_subscription_id
        => s = t

\* A delivery lost the race for its subscription id to the unique constraint.
C5_Witness ==
    \E p \in Slots :
        /\ procs[p].kind = "webhook" /\ procs[p].pc = "done"
        /\ Includes(procs[p].error, <<"subscriptions_dodo_subscription_id_key">>)
        /\ Cardinality(RowsWithId(subscriptions, procs[p].data.subscription_id)) = 1

\* C6, as stated: in every reachable state at most one row of a customer and
\* product is a pending placeholder.
C6_OnePlaceholderPerPair ==
    \A s, t \in subscriptions :
        /\ s.status = "pending" /\ IsTemp(s.dodo_subscription_id)
        /\ t.status = "pending" /\ IsTemp(t.dodo_subscription_id)
        /\ s.customer_id = t.customer_id /\ s.product_id = t.product_id
        => s = t

\* The step starts a request in slot p.
StartsAt(p) ==
    /\ started' = started + 1
    /\ Free(p)
    /\ \A q \in 1..(p - 1) : ~Free(q)

\* The request record r is a delivery refused for its signature.
Rejected(r) ==
    /\ r.kind = "webhook" /\ r.pc = "done"
    /\ Includes(r.error, <<"verification", "failed">>)

\* C7: the step in which a delivery fails signature verification under a
\* configured key ends the delivery with an error, inserts no audit row and
\* changes no customer, subscription or payment row.
C7_VerificationGate ==
    [][\A p \in Slots : StartsAt(p) /\ Rejected(procs'[p]) =>
            /\ procs'[p].result = "failed"
            /\ procs'[p].event_id = 0
            /\ UNCHANGED store]_vars

C7_Witness ==
    \E p \in Slots : Rejected(procs[p]) /\ webhook_events # {}

\* The request record r is a delivery of a type processWebhook has no case for.
Unhandled(r) ==
    /\ r.kind = "webhook"
    /\ r.type \in EventTypes \ SubscriptionEvents

\* A finished delivery of an unhandled type reported success and has its
\* one audit row, marked processed.
UnhandledIsProcessed ==
    \A p \in Slots : Unhandled(procs[p]) /\ procs[p].pc = "done" =>
        /\ procs[p].result = "success"
        /\ Cardinality({e \in webhook_events : e.id = procs[p].event_id}) = 1
        /\ \A e \in webhook_events : e.id = procs[p].event_id =>
                e.processed /\ e.event_type = procs[p].type

\* The steps of a delivery of an unhandled type: its arrival adds its audit
\* row, its last step marks that row; neither changes another row.
UnhandledStep(p) ==
    LET r == procs'[p]
    IN /\ StartsAt(p) /\ Unhandled(r) =>
            /\ UNCHANGED <<customers, subscriptions, payments>>
            /\ \E e \in webhook_events' \ webhook_events :
                /\ webhook_events' = webhook_events \cup {e}
                /\ e.id = r.event_id /\ e.event_type = r.type /\ ~e.processed
       /\ ~Free(p) /\ Unhandled(procs[p]) /\ r # procs[p] =>
            /\ UNCHANGED <<customers, subscriptions, payments>>
            /\ r.pc = "done"
            /\ Cardinality(webhook_events') = Cardinality(webhook_events)
            /\ \A e \in webhook_events : e.id # r.event_id => e \in webhook_events'

\* C8: a delivery of a type that is not handled adds exactly one audit row,
\* which ends processed, reports success, and creates or changes no
\* customer, subscription or payment row.
C8_UnknownEventType ==
    []UnhandledIsProcessed /\ [][\A p \in Slots : UnhandledStep(p)]_vars

C8_Witness ==
    \E p \in Slots :
        /\ Unhandled(procs[p]) /\ procs[p].pc = "done"
        /\ customers # {} /\ subscriptions # {}
        /\ Cardinality(webhook_events) > 1

\* No two customer rows share an email, and a signup answered 201 has its row.
OneCustomerPerEmail ==
    /\ \A c, d \in customers : c.email = d.email => c = d
    /\ \A p \in Slots :
        procs[p].kind = "signup" /\ procs[p].pc = "done" /\ procs[p].status = 201
            => Cardinality(getCustomerByEmail(procs[p].email)) = 1

\* A signup for an email that has a row is refused at once.
SecondSignupRefused(p) ==
    LET r == procs'[p]
    IN StartsAt(p) /\ r.kind = "signup" /\ getCustomerByEmail(r.email) # {} =>
        /\ r.pc = "done"
        /\ r.status = 409
        /\ Includes(r.error, <<"already", "exists">>)
        /\ customers' = customers

\* C9: a signup for an email that already has a customer row fails with an
\* 'already exists' error, answered 409, and leaves the one row; under every
\* interleaving of concurrent signups no email has more than one row.
C9_SignupUniqueness ==
    []OneCustomerPerEmail /\ [][\A p \in Slots : SecondSignupRefused(p)]_vars

C9_Witness ==
    \E p, q \in Slots :
        /\ procs[p].kind = "signup" /\ procs[p].pc = "done" /\ procs[p].status = 409
        /\ procs[q].kind = "signup" /\ procs[q].pc = "done" /\ procs[q].status = 201
        /\ procs[p].email = procs[q].email
        /\ Cardinality(getCustomerByEmail(procs[p].email)) = 1

\* The request in slot p is a finished subscribe for an email without a
\* customer row.
SubscribedWithoutSignup(p) ==
    /\ procs[p].kind = "subscribe" /\ procs[p].pc = "done"
    /\ getCustomerByEmail(procs[p].email) = {}

\* C10: a subscribe for an email that has no customer row fails with a
\* 'not found' error, answered 404, and the subscription rows are those from
\* before the call.
C10_SubscribeWithoutSignup ==
    \A p \in Slots : SubscribedWithoutSignup(p) =>
        /\ procs[p].status = 404
        /\ Includes(procs[p].error, <<"not", "found">>)
        /\ subscriptions = pre

C10_Witness ==
    \E p \in Slots : SubscribedWithoutSignup(p) /\ pre # {}

\* A subscribe request answered 201.
Subscribed(r) == r.kind = "subscribe" /\ r.pc = "done" /\ r.status = 201

\* C11: createCheckoutUrl(productId) is the configured base URL followed by
\* /buy/ and productId, whatever the state it is called in, and the payment
\* link of a subscribe request is this value; the step that computes it
\* writes nothing but the request's placeholder row and calls no provider.
C11_CheckoutUrl ==
    /\ [](\A pr \in Products \cup {"prod_2"} :
            /\ createCheckoutUrl(pr) = checkoutUrl \o <<"/buy/">> \o <<pr>>
            /\ Len(createCheckoutUrl(pr)) = Len(checkoutUrl) + 2)
    /\ [](\A p \in Slots : Subscribed(procs[p]) =>
            /\ procs[p].payment_link = checkoutUrl \o <<"/buy/", procs[p].product_id>>
            /\ procs[p].payment_link = createCheckoutUrl(procs[p].product_id))
    /\ [][\A p \in Slots : Subscribed(procs'[p]) /\ procs'[p] # procs[p] =>
            /\ UNCHANGED <<customers, webhook_events, payments, dodoCustomers,
                           checkoutUrl>>
            /\ Cardinality(subscriptions') = Cardinality(subscriptions) + 1]_vars

C11_Witness ==
    \E p \in Slots :
        /\ Subscribed(procs[p])
        /\ checkoutUrl # DefaultCheckoutUrl
        /\ Cardinality(subscriptions) > 1

\* A finished delivery to processWebhook of a subscription.renewed event
\* whose row existed under the event's id with status active.
RenewedExisting(p) ==
    /\ procs[p].kind = "webhook" /\ procs[p].pc = "done"
    /\ procs[p].type = "subscription.renewed"
    /\ \E s \in RowsWithId(pre, procs[p].data.subscription_id) : s.status = "active"

\* C12, as stated: after processWebhook handled a subscription.renewed event
\* for a row that existed under the event's id with status active, the row
\* is still active and its next_billing_date and amount are the event's.
C12_RenewalRefresh ==
    \A p \in Slots : RenewedExisting(p) =>
        \A s \in RowsWithId(subscriptions, procs[p].data.subscription_id) :
            /\ s.status = "active"
            /\ s.next_billing_date = procs[p].data.next_billing_date
            /\ s.amount = procs[p].data.recurring_pre_tax_amount

\* A finished delivery to processWebhook of a subscription event without
\* subscription id.
NoSubscriptionIdDelivery(p) ==
    /\ procs[p].kind = "webhook" /\ procs[p].pc = "done"
    /\ procs[p].type \in SubscriptionEvents
    /\ procs[p].data.subscription_id = NoSubId

\* C13, as stated: no step of a subscription delivery without subscription
\* id changes the customers or the subscriptions, whatever customer the event
\* carries, and the delivery ends without error.
C13_MissingSubscriptionId ==
    /\ [](\A p \in Slots : NoSubscriptionIdDelivery(p) =>
                procs[p].result = "success" /\ procs[p].error = <<>>)
    /\ [][\A p \in Slots :
            /\ procs[p].kind = "webhook" /\ procs[p].pc # "done"
            /\ procs[p].type \in SubscriptionEvents
            /\ procs[p].data.subscription_id = NoSubId
            => UNCHANGED <<customers, subscriptions>>]_vars

\* A delivery to processWebhook or to the edge function.
Delivery(r) == r.kind \in {"webhook", "edge"}

\* The delivery r has ended, and not for a write of its audit row that the
\* store failed.
Handled(r) ==
    /\ r.pc = "done"
    /\ ~Includes(r.error, <<"Failed", "to", "log", "webhook", "event">>)
    /\ ~Includes(r.error, <<"Failed", "to", "mark", "webhook", "as", "processed">>)

\* The delivery is in the reconciler: its audit row is written, and
\* handleSubscriptionEvent has not returned yet.
Reconciling(r) ==
    /\ Delivery(r)
    /\ r.pc \in {"custLookup", "custInsert", "subLookup", "subUpdate", "custRecord",
                 "pendingLookup", "merge", "subInsert", "upsert"}

AuditRows(r) == {e \in webhook_events : e.id = r.event_id}

\* The reconciler raised an error in the finished delivery.
ReconcilerRaised(r) ==
    /\ Delivery(r) /\ r.pc = "done" /\ r.event_id # 0 /\ r.error # <<>>

\* C14: a delivery in which the reconciler raised an error ends as a failure
\* (for the edge function: with status 500), never as a success, and its
\* audit row exists with processed=false; a step that ends a delivery from
\* inside the reconciler raises an error and leaves that audit row unprocessed.
C14_FailureSurfaced ==
    /\ [](\A p \in Slots : ReconcilerRaised(procs[p]) =>
            /\ procs[p].result = "failed"
            /\ procs[p].kind = "edge" => procs[p].status = 500
            /\ AuditRows(procs[p]) # {}
            /\ \A e \in AuditRows(procs[p]) : ~e.processed)
    /\ [][\A p \in Slots :
            Reconciling(procs[p]) /\ procs'[p].pc = "done" =>
                /\ ReconcilerRaised(procs'[p])
                /\ procs'[p].result = "failed"
                /\ \E e \in webhook_events' : e.id = procs[p].event_id /\ ~e.processed
                /\ UNCHANGED <<customers, subscriptions>>]_vars

\* A delivery has ended with an error of the reconciler after an earlier
\* delivery was processed.
C14_Witness ==
    /\ \E p \in Slots : ReconcilerRaised(procs[p])
                         /\ Includes(procs[p].error, <<"unique", "constraint">>)
    /\ \E e \in webhook_events : e.processed

\* A delivery, to processWebhook or to the earlier function, of a
\* payment.succeeded event that carries a customer and a payment id.
PaymentDelivery(r) ==
    /\ r.kind \in {"webhook", "hook"}
    /\ r.type = "payment.succeeded"
    /\ r.data.customer.present
    /\ r.data.payment_id # NoPaymentId

PaymentsWithId(paymentId) == {x \in payments : x.dodo_payment_id = paymentId}

\* C15, as stated: once a payment.succeeded delivery for a provider customer
\* with a local row is handled, exactly one payments row has the event's
\* payment id, with that customer's id and status succeeded; a delivery
\* whose customer has no local row inserts no payment and succeeds.
C15_PaymentRecorded ==
    /\ [](\A p \in Slots : PaymentDelivery(procs[p]) /\ Handled(procs[p]) =>
            /\ procs[p].result = "success"
            /\ EventCustomerRows(p) # {} =>
                /\ Cardinality(PaymentsWithId(procs[p].data.payment_id)) = 1
                /\ \A x \in PaymentsWithId(procs[p].data.payment_id) :
                    /\ x.status = "succeeded"
                    /\ \E c \in EventCustomerRows(p) : x.customer_id = c.id)
    /\ [][\A p \in Slots :
            /\ PaymentDelivery(procs[p]) /\ procs[p].pc # "done"
            /\ EventCustomerRows(p) = {}
            => UNCHANGED payments]_vars

\* A finished delivery to processWebhook of a subscription event with a
\* subscription id.
FinishedSubscriptionDelivery(r) ==
    /\ r.kind = "webhook" /\ r.pc = "done"
    /\ r.type \in SubscriptionEvents
    /\ r.data.subscription_id # NoSubId

\* C16, as stated: of two finished deliveries with different subscription ids
\* that found the same pending placeholder, one ended with a conflict error;
\* and while a delivery reports success, a row with its subscription id exists.
C16_LostRaceIsConflict ==
    /\ \A p, q \in Slots :
        /\ p # q
        /\ FinishedSubscriptionDelivery(procs[p])
        /\ FinishedSubscriptionDelivery(procs[q])
        /\ procs[p].pending_id # 0
        /\ procs[p].pending_id = procs[q].pending_id
        /\ procs[p].data.subscription_id # procs[q].data.subscription_id
        => \E r \in {p, q} :
            /\ procs[r].result = "failed"
            /\ Includes(procs[r].error, <<"unique", "constraint">>)
    /\ \A p \in Slots :
        FinishedSubscriptionDelivery(procs[p]) /\ procs[p].result = "success"
            => RowsWithId(subscriptions, procs[p].data.subscription_id) # {}

\* The request record r is a delivery whose raw body was not valid JSON.
Malformed(r) ==
    /\ r.kind \in {"webhook", "edge", "hook"} /\ r.pc = "done"
    /\ Includes(r.error, <<"JSON">>)

\* C17: the step in which a delivery's raw body fails to parse ends the
\* delivery as a failure (the edge function answers 400), inserts no audit row
\* and inserts or changes no other row.
C17_MalformedJson ==
    [][\A p \in Slots : StartsAt(p) /\ Malformed(procs'[p]) =>
            /\ procs'[p].result = "failed"
            /\ procs'[p].event_id = 0
            /\ procs'[p].kind = "edge" => procs'[p].status = 400
            /\ UNCHANGED store]_vars

\* A malformed body was delivered to processWebhook after an earlier delivery
\* left its audit row.
C17_Witness ==
    \E p \in Slots :
        /\ Malformed(procs[p]) /\ procs[p].kind = "webhook"
        /\ webhook_events # {}

\* A delivery, to processWebhook or to the edge function, of a subscription
\* event that carries no customer, or a customer without customer_id.
WithoutCustomerId(r) ==
    /\ Delivery(r)
    /\ r.type \in SubscriptionEvents
    /\ r.data.customer.customer_id = NoDodoId

\* C18, as stated: a subscription delivery without customer or customer id
\* ends with success and its audit row processed, and none of its steps
\* changes the customers or the subscriptions.
C18_MissingCustomerSkipped ==
    /\ [](\A p \in Slots : WithoutCustomerId(procs[p]) /\ Handled(procs[p]) =>
            /\ procs[p].result = "success"
            /\ \E e \in AuditRows(procs[p]) : e.processed)
    /\ [][\A p \in Slots : WithoutCustomerId(procs[p]) /\ procs[p].pc # "done" =>
            UNCHANGED <<customers, subscriptions>>]_vars

\* A finished delivery, to processWebhook or to the edge function, of a
\* subscription.active or subscription.cancelled event whose row existed
\* under the event's id, and whose customer has a local row.
ExistingRowDelivery(r) ==
    /\ Delivery(r) /\ Handled(r)
    /\ r.type \in {"subscription.active", "subscription.cancelled"}
    /\ \E c \in customers : c.dodo_customer_id = r.data.customer.customer_id
    /\ RowsWithId(pre, r.data.subscription_id) # {}

\* C19, as stated: when a row exists under the event's id, the delivery
\* succeeds and sets that row's status to the target status, and every
\* pending placeholder is left as it was.
C19_ExistingRowWins ==
    \A p \in Slots : ExistingRowDelivery(procs[p]) =>
        /\ procs[p].result = "success"
        /\ \A s \in RowsWithId(subscriptions, procs[p].data.subscription_id) :
                s.status = TargetStatus(procs[p].type)
        /\ \A s \in pre :
                s.status = "pending" /\ IsTemp(s.dodo_subscription_id)
                    => s \in subscriptions

\* The request record r is a signup that failed at the provider: the
\* provider's call threw, or answered without customer_id.
UpstreamFailed(r) ==
    /\ r.kind = "signup" /\ r.pc = "done"
    /\ \/ Includes(r.error, <<"Failed", "to", "create", "Dodo", "customer">>)
       \/ Includes(r.error, <<"no", "customer", "ID", "returned">>)

AlreadyExists(r) ==
    /\ r.kind = "signup" /\ r.pc = "done"
    /\ Includes(r.error, <<"already", "exists">>)

\* C21: a signup that starts for an email that has a Customer row ends at
\* once, refused with "already exists" (status 409); the step in which a
\* signup is refused so creates no customer at the provider and writes
\* nothing to the store.
C21_RejectedSignupWritesNothing ==
    [][\A p \in Slots :
        /\ (/\ StartsAt(p)
            /\ procs'[p].kind = "signup"
            /\ \E c \in customers : c.email = procs'[p].email)
           => AlreadyExists(procs'[p]) /\ procs'[p].status = 409
        /\ AlreadyExists(procs'[p]) /\ procs'[p] # procs[p]
           => /\ UNCHANGED <<store, dodoCustomers>>
              /\ procs'[p].dodo_customer_id = NoDodoId]_vars

\* A signup was refused for the email of the one customer there is.
C21_Witness ==
    \E p \in Slots :
        /\ AlreadyExists(procs[p])
        /\ \E c \in customers : c.email = procs[p].email
        /\ Cardinality(customers) = 1 /\ Cardinality(dodoCustomers) = 1

\* The steps of the deliveries to processWebhook of subscription events that
\* name a provider customer.  A delivery whose customer has a local row
\* leaves the customers as they are.  A delivery whose customer has none goes
\* from the lookup to the insert, and its insert adds exactly one row, with
\* the event's provider id, email and name; with unlessEmailTaken, an insert
\* of an email that has a row adds none.  No step calls the provider.
CustomerResolution(unlessEmailTaken) ==
    \A p \in Slots :
        (/\ procs[p].kind = "webhook" /\ procs[p].pc # "done"
         /\ procs[p].type \in SubscriptionEvents
         /\ procs[p].data.customer.customer_id # NoDodoId
         /\ procs'[p] # procs[p])
        => LET c == procs[p].data.customer
               known == EventCustomerRows(p) # {}
           IN /\ UNCHANGED dodoCustomers
              /\ known => UNCHANGED customers
              /\ ~known /\ procs[p].pc = "custLookup" =>
                    procs'[p].pc = "custInsert" /\ UNCHANGED customers
              /\ ~known /\ procs[p].pc = "custInsert" =>
                    IF unlessEmailTaken => \A x \in customers : x.email # c.email
                    THEN \E row \in customers' \ customers :
                            /\ customers' = customers \cup {row}
                            /\ row.dodo_customer_id = c.customer_id
                            /\ row.email = c.email
                            /\ row.name = c.name
                    ELSE UNCHANGED customers

FoundSeveralPlaceholders(p) ==
    /\ FinishedSubscriptionDelivery(procs[p])
    /\ RowsWithId(pre, procs[p].data.subscription_id) = {}
    /\ \E c \in EventCustomerRows(p) :
            Cardinality(PlaceholdersIn(pre, c.id, EventProduct(p))) > 1

\* C24: when several pending placeholders of the event's customer and
\* product exist and no row has the event's id, the delivery succeeds, the
\* placeholder created last (and only that row) now has the event's id and
\* the target status, and every other placeholder is as it was.
C24_MostRecentPlaceholder ==
    \A p \in Slots : FoundSeveralPlaceholders(p) =>
        /\ procs[p].result = "success"
        /\ \A c \in EventCustomerRows(p) :
            LET found == PlaceholdersIn(pre, c.id, EventProduct(p))
            IN \E last \in found :
                /\ \A b \in found : b.created_at <= last.created_at
                /\ \A b \in found \ {last} : b \in subscriptions
                /\ \E s \in subscriptions :
                    /\ s.id = last.id
                    /\ s.dodo_subscription_id = procs[p].data.subscription_id
                    /\ s.status = TargetStatus(procs[p].type)
                /\ Cardinality(RowsWithId(subscriptions,
                                           procs[p].data.subscription_id)) = 1
                /\ Cardinality(subscriptions) = Cardinality(pre)

\* The second of two placeholders was merged, and the first is still pending.
C24_Witness ==
    \E p \in Slots :
        /\ FoundSeveralPlaceholders(p)
        /\ \E s, t \in subscriptions :
            /\ s.dodo_subscription_id = procs[p].data.subscription_id
            /\ t.status = "pending" /\ IsTemp(t.dodo_subscription_id)
            /\ t.created_at < s.created_at

\* The delivery r lost the race for its subscription id to the unique
\* constraint.
ConflictLost(r) ==
    /\ FinishedSubscriptionDelivery(r)
    /\ r.result = "failed"
    /\ Includes(r.error, <<"subscriptions_dodo_subscription_id_key">>)

\* A delivery of the event of type t for the subscription sid, logged after
\* audit row e, has succeeded by updating the row: one row has the id sid,
\* in the target status, and the delivery's audit row is processed.
ConvergedAfter(t, sid, e) ==
    \E q \in Slots :
        /\ FinishedSubscriptionDelivery(procs[q])
        /\ procs[q].type = t /\ procs[q].data.subscription_id = sid
        /\ procs[q].event_id > e
        /\ procs[q].result = "success"
        /\ \E a \in AuditRows(procs[q]) : a.processed /\ a.event_type = t
        /\ Cardinality(RowsWithId(subscriptions, sid)) = 1
        /\ \A s \in RowsWithId(subscriptions, sid) :
                s.status = TargetStatus(t) /\ s.updated_at > 0

\* C25: when a delivery has failed on the unique constraint of the
\* subscription id, and failed deliveries are redelivered, eventually a
\* later delivery of the event succeeds by updating the existing row: there
\* is exactly one row with the event's id, in the target status, and the
\* later delivery's audit row is processed.  No redelivery is held back by
\* the bound on the audit rows.
C25_RetryConverges ==
    /\ \A e \in 1..MaxAuditRows :
            (\E p \in Slots : ConflictLost(procs[p]) /\ procs[p].event_id = e)
            ~> ConvergedAfter("subscription.active", <<"sub", 1>>, e)
    /\ [](Cardinality(webhook_events) < MaxAuditRows)

\* A redelivery of a delivery that lost the race has succeeded.
C25_Witness ==
    \E q \in Slots :
        /\ FinishedSubscriptionDelivery(procs[q])
        /\ procs[q].replay /\ procs[q].result = "success"
        /\ \E a \in webhook_events : ~a.processed /\ a.id < procs[q].event_id
        /\ \E s \in subscriptions :
            /\ s.dodo_subscription_id = procs[q].data.subscription_id
            /\ s.updated_at > 0

\* The delivery r ended because the insert of its audit row failed.
LogFailed(r) ==
    /\ Delivery(r) /\ r.pc = "done"
    /\ Includes(r.error, <<"Failed", "to", "log", "webhook", "event">>)

\* C26: the step that starts a delivery writes no Customer and no
\* Subscription row; a later step of the delivery that creates or changes
\* one finds the delivery's audit row in the table, with processed=false;
\* and a delivery whose audit insert fails ends at once as a failure (the
\* edge function answers 500), with no audit row and no other write.
C26_AuditRowFirst ==
    [][\A p \in Slots :
        /\ StartsAt(p) /\ Delivery(procs'[p]) => UNCHANGED <<customers, subscriptions>>
        /\ (/\ Delivery(procs[p]) /\ procs[p].pc # "done"
            /\ procs'[p] # procs[p]
            /\ <<customers, subscriptions>>' # <<customers, subscriptions>>)
           => /\ procs[p].event_id # 0
              /\ \E e \in webhook_events : e.id = procs[p].event_id /\ ~e.processed
        /\ StartsAt(p) /\ LogFailed(procs'[p]) =>
              /\ procs'[p].result = "failed"
              /\ procs'[p].event_id = 0
              /\ procs'[p].kind = "edge" => procs'[p].status = 500
              /\ UNCHANGED store]_vars

\* The audit insert of a delivery failed after an earlier delivery had
\* written its audit row and a subscription.
C26_Witness ==
    \E p \in Slots :
        /\ LogFailed(procs[p])
        /\ procs[p].type \in SubscriptionEvents
        /\ webhook_events # {}
        /\ \E s \in subscriptions : ~IsTemp(s.dodo_subscription_id)

\* C27, as stated: in the step in which a delivery, to processWebhook or to
\* the edge function, reports success, its audit row is in the table with
\* processed=true; a delivery whose mark fails does not report success.
C27_SuccessImpliesProcessed ==
    [][\A p \in Slots :
        (/\ Delivery(procs'[p]) /\ procs'[p].pc = "done"
         /\ procs'[p].result = "success"
         /\ procs'[p] # procs[p])
        => \E e \in webhook_events' : e.id = procs'[p].event_id /\ e.processed]_vars

\* C28: no step deletes an audit row, changes the event_type or the data of
\* one, or sets the processed flag of one from true back to false.
C28_AuditTrailAppendOnly ==
    [][\A e \in webhook_events :
        \E f \in webhook_events' :
            /\ f.id = e.id
            /\ f.event_type = e.event_type
            /\ f.data = e.data
            /\ e.processed => f.processed]_vars

\* A delivery has been marked processed after an earlier one was, with an
\* unprocessed row between or after them.
C28_Witness ==
    \E e, f, g \in webhook_events :
        /\ e.processed /\ f.processed /\ e.id < f.id
        /\ ~g.processed

\* C29: the step in which a delivery to processWebhook fails during
\* reconciliation changes no row of any table (the audit rows of the other
\* deliveries, and the customers and subscriptions they wrote, included) and
\* no other request; it leaves the delivery's own audit row unprocessed.
\* What is handled afterwards starts from the store as the writes the failed
\* delivery completed left it.
C29_EventIsolation ==
    [][\A p \in Slots :
        (/\ procs[p].kind = "webhook" /\ Reconciling(procs[p])
         /\ procs'[p].pc = "done" /\ procs'[p].result = "failed")
        => /\ UNCHANGED <<store, dodoCustomers, started, checkoutUrl>>
           /\ \A q \in Slots \ {p} : procs'[q] = procs[q]
           /\ procs'[p].event_id = procs[p].event_id
           /\ \E e \in webhook_events : e.id = procs[p].event_id /\ ~e.processed]_vars

\* A delivery has failed on the unique constraint while the delivery that
\* won the race is still to be marked processed.
C29_Witness ==
    \E p, q \in Slots :
        /\ p # q
        /\ ConflictLost(procs[p])
        /\ procs[q].kind = "webhook" /\ procs[q].pc = "mark"
        /\ procs[q].data.subscription_id = procs[p].data.subscription_id

\* A subscription delivery to processWebhook whose provider customer id has
\* no local row while its email belongs to a local row.
EmailClash(r) ==
    /\ r.kind = "webhook"
    /\ r.type \in SubscriptionEvents
    /\ r.data.subscription_id # NoSubId
    /\ r.data.customer.customer_id # NoDodoId
    /\ ~\E c \in customers : c.dodo_customer_id = r.data.customer.customer_id
    /\ \E c \in customers : c.email = r.data.customer.email

\* C30, as stated: a subscription delivery whose provider customer id is
\* unknown locally and whose email belongs to another customer row ends with
\* a failure that reports the violated unique constraint on the email, and
\* none of its steps adds a customer row or a subscription row.
C30_EmailClashConflict ==
    /\ [](\A p \in Slots : EmailClash(procs[p]) /\ Handled(procs[p]) =>
            /\ procs[p].result = "failed"
            /\ Includes(procs[p].error, UniqueViolation("customers_email_key")))
    /\ [][\A p \in Slots : EmailClash(procs[p]) /\ procs[p].pc # "done" =>
            /\ customers' = customers
            /\ Cardinality(subscriptions') <= Cardinality(subscriptions)]_vars

\* C31: customer rows are never deleted and their identity is stable: every
\* step of a signup, a subscribe call or a webhook delivery leaves each
\* customer row in the table with the id, email and provider customer id it
\* had, and no two rows share an id.
C31_CustomersStable ==
    /\ [][\A c \in customers : c \in customers']_vars
    /\ [](\A c, d \in customers : c.id = d.id => c = d)

\* The table holds the row a signup inserted and, after it, the row a
\* webhook delivery inserted for a customer created outside this system,
\* and a later request has finished.
C31_Witness ==
    /\ \E c, d \in customers :
        /\ c.dodo_customer_id = DodoIdOf(1)
        /\ d.dodo_customer_id = ExternalDodoId
        /\ c.id < d.id
    /\ started = MaxRequests
    /\ \A p \in Slots : Free(p)

\* The delivery in slot p is about to update the row found under the
\* event's id.
InFoundBranch(p) ==
    /\ procs[p].kind = "webhook" /\ procs[p].pc = "subUpdate"
    /\ RowsWithId(subscriptions, procs[p].data.subscription_id) # {}

\* C32: the update of a subscription row that a delivery to processWebhook
\* found under the event's id sets the row's status to the target status and
\* advances its updated_at; every other column of the row (id, customer_id,
\* product_id, provider subscription id and the billing columns) stays, no
\* row is inserted and every other subscription row stays as it was.
C32_FoundBranchFrame ==
    [][\A p \in Slots : InFoundBranch(p) /\ procs'[p].pc # "subUpdate" =>
        /\ procs'[p].pc = "mark"
        /\ Cardinality(subscriptions') = Cardinality(subscriptions)
        /\ \A s \in subscriptions :
            IF s.dodo_subscription_id = procs[p].data.subscription_id
            THEN /\ [s EXCEPT !.status = TargetStatus(procs[p].type),
                              !.updated_at = s.updated_at + 1] \in subscriptions'
            ELSE s \in subscriptions']_vars

\* A cancellation has just updated the active row found under its id, and
\* the customer's pending placeholder stands beside it.
C32_Witness ==
    \E p \in Slots :
        /\ procs[p].kind = "webhook" /\ procs[p].pc = "mark"
        /\ procs[p].type = "subscription.cancelled"
        /\ procs[p].data.customer.customer_id # NoDodoId
        /\ procs[p].customer_id = 0
        /\ \E s, t \in subscriptions :
            /\ s.dodo_subscription_id = procs[p].data.subscription_id
            /\ s.status = "cancelled" /\ s.amount = 500
            /\ s \notin pre
            /\ t.customer_id = s.customer_id
            /\ t.status = "pending" /\ IsTemp(t.dodo_subscription_id)

\* C33: under createSubscriptionFlow calls and deliveries to processWebhook
\* whose subscription ids are real, in every state a subscription row is
\* pending exactly when its provider subscription id is a temp_ placeholder,
\* every such row has amount 0, and every row with a real id is active or
\* cancelled.
C33_PlaceholderIffPending ==
    \A s \in subscriptions :
        /\ s.status = "pending" <=> IsTemp(s.dodo_subscription_id)
        /\ IsTemp(s.dodo_subscription_id) => s.amount = 0
        /\ ~IsTemp(s.dodo_subscription_id) => s.status \in {"active", "cancelled"}

\* A placeholder was merged into a row with a real id, which a cancellation
\* then updated, and a later subscribe call left a new pending placeholder.
C33_Witness ==
    \E s, t \in subscriptions :
        /\ ~IsTemp(s.dodo_subscription_id)
        /\ s.status = "cancelled" /\ s.updated_at = 2
        /\ IsTemp(t.dodo_subscription_id) /\ t.status = "pending"
        /\ t.created_at > s.created_at

\* The signup that created the provider customer id has not returned yet.
SignupInFlightWith(id) ==
    \E p \in Slots :
        /\ procs[p].kind = "signup" /\ procs[p].pc # "done"
        /\ procs[p].dodo_customer_id = id

\* C34, as stated: once the createCustomerFlow call that created a customer
\* at the provider has returned, a local customer row holds that provider
\* customer id, whether signups run concurrently or the local insert fails.
C34_NoOrphanedDodoCustomer ==
    \A id \in dodoCustomers :
        ~SignupInFlightWith(id) =>
            \E c \in customers : c.dodo_customer_id = id

\* The delivery in slot p is a subscription delivery to processWebhook that
\* names a provider customer.
NamesCustomer(p) ==
    /\ procs[p].kind = "webhook"
    /\ procs[p].type \in SubscriptionEvents
    /\ procs[p].data.customer.customer_id # NoDodoId

\* C35: when deliveries to processWebhook that name the same provider
\* customer, unknown to the store, run concurrently, a customer insert that
\* is refused because the other delivery inserted first does not end the
\* delivery; no delivery fails for the customer (no "Customer not found",
\* no violated constraint of the customers table); and once a delivery is
\* finished exactly one customer row holds the provider id.
C35_FirstContactBenign ==
    /\ [][\A p \in Slots :
            /\ NamesCustomer(p) /\ procs[p].pc = "custInsert"
            /\ procs'[p] # procs[p]
            => /\ procs'[p].pc = AfterCustomer(procs[p].data)
               /\ Cardinality(EventCustomerRows(p)') = 1]_vars
    /\ [](\A p \in Slots : NamesCustomer(p) /\ procs[p].pc = "done" =>
            /\ Cardinality(EventCustomerRows(p)) = 1
            /\ ~Includes(procs[p].error, <<"Customer", "not", "found">>)
            /\ ~Includes(procs[p].error, <<"customers_dodo_customer_id_key">>)
            /\ ~Includes(procs[p].error, <<"customers_email_key">>))

\* A delivery found no row for its customer and is about to insert it, and
\* the concurrent delivery for the same customer, which found none either,
\* has inserted the row in between.
C35_Witness ==
    \E p, q \in Slots :
        /\ p # q
        /\ NamesCustomer(p) /\ procs[p].pc = "custInsert"
        /\ NamesCustomer(q) /\ procs[q].pc \notin {"custLookup", "custInsert", "done"}
        /\ procs[q].data.customer.customer_id = procs[p].data.customer.customer_id
        /\ procs[q].event_id > procs[p].event_id
        /\ EventCustomerRows(p) # {}

\* In this step a delivery that passed verification and JSON parsing
\* arrives in slot p, as a first delivery or as a redelivery.
AcceptedArrives(p) ==
    /\ procs[p].pc \in {"idle", "done"}
    /\ procs'[p] # procs[p]
    /\ Delivery(procs'[p])
    /\ procs'[p].type # "none"

\* A delivery still being handled owns the audit row e.
Owned(e) ==
    \E p \in Slots :
        /\ Delivery(procs[p]) /\ procs[p].pc # "done"
        /\ procs[p].event_id = e.id

\* C36: the step in which a delivery that passed verification and JSON
\* parsing arrives, a redelivery of an event included, adds exactly one
\* audit row, under an id no row had, unprocessed (the store accepting the
\* insert); no other step adds or removes an audit row, so there are as many
\* audit rows as accepted deliveries; and an unprocessed row whose delivery
\* has ended, the row of a failed delivery, is never changed again, whatever
\* a later redelivery does.
C36_OneAuditRowPerDelivery ==
    /\ [][\A p \in Slots : AcceptedArrives(p) =>
            /\ \A e \in webhook_events : e.id # procs'[p].event_id
            /\ webhook_events' = webhook_events \cup
                    {[id |-> procs'[p].event_id,
                      event_type |-> procs'[p].type,
                      data |-> procs'[p].data.subscription_id,
                      processed |-> FALSE]}]_vars
    /\ [][(\A p \in Slots : ~AcceptedArrives(p)) =>
            Cardinality(webhook_events') = Cardinality(webhook_events)]_vars
    /\ [][\A e \in webhook_events :
            ~e.processed /\ ~Owned(e) => e \in webhook_events']_vars

\* A redelivery has succeeded and its own audit row is processed, while the
\* audit row of the failed delivery of the same event is still unprocessed:
\* three deliveries were accepted and three rows are in the table.
C36_Witness ==
    /\ Cardinality(webhook_events) = 3
    /\ \E q \in Slots :
        /\ procs[q].kind = "webhook" /\ procs[q].pc = "done"
        /\ procs[q].replay /\ procs[q].result = "success"
        /\ \E a, b \in webhook_events :
            /\ b.id = procs[q].event_id /\ b.processed
            /\ a.id < b.id /\ ~a.processed
            /\ a.event_type = b.event_type /\ a.data = b.data

\* The delivery r carries full customer and subscription data.
FullData(r) ==
    /\ Delivery(r)
    /\ r.type \in SubscriptionEvents
    /\ r.data.subscription_id # NoSubId
    /\ r.data.customer.customer_id # NoDodoId
    /\ r.data.customer.email # Null
    /\ r.data.product_id # Null
    /\ r.data.next_billing_date # Null

\* The latest request, one of a sequence, is a finished delivery of kind k
\* with full data: `pre` is the subscriptions table it found.
LatestFullDelivery(k) ==
    /\ \A p \in Slots : Free(p)
    /\ procs[1].kind = k /\ Handled(procs[1])
    /\ FullData(procs[1])

\* A subscription row's real id, owner, product, status and billing fields.
Billing(s) ==
    [dodo_subscription_id |-> s.dodo_subscription_id,
     customer_id |-> s.customer_id,
     product_id |-> s.product_id,
     status |-> s.status,
     billing_interval |-> s.billing_interval,
     amount |-> s.amount,
     currency |-> s.currency,
     next_billing_date |-> s.next_billing_date]

\* NodeReconcile is what the steps of a delivery to processWebhook do when
\* nothing runs between them.
NodeReconcileIsProcessWebhook ==
    LatestFullDelivery("webhook") =>
        LET n == NodeReconcile(customers, pre, procs[1].type, procs[1].data)
        IN /\ procs[1].result = n.result
           /\ subscriptions = n.subscriptions

\* C37, as stated: a delivery with full customer and subscription data that
\* the edge function has handled, after any sequence of subscribe calls and
\* deliveries, ended as processWebhook ends the same delivery from the same
\* tables, success or failure, and left the subscription rows processWebhook
\* leaves: the same real ids, owners, products, statuses and billing fields.
C37_ImplementationsAgree ==
    LatestFullDelivery("edge") =>
        LET n == NodeReconcile(customers, pre, procs[1].type, procs[1].data)
        IN /\ procs[1].result = n.result
           /\ {Billing(s) : s \in subscriptions}
                = {Billing(s) : s \in n.subscriptions}

====
